---- MODULE Spec2Model ----
(***************************************************************************)
(* Model of 618-Launcher: the Library store (src/data), its JSON           *)
(* persistence, and the App message handler (src/app.rs) with the          *)
(* background tasks it dispatches (save, load, launch).                    *)
(*                                                                         *)
(* Strings are sequences of one-character strings, Option<T> is a sequence *)
(* of length at most one, a Vec is a sequence, a HashMap is a function     *)
(* whose DOMAIN is its key set.  Uuids are drawn from counters, so an id   *)
(* is never handed out twice.                                              *)
(***************************************************************************)
EXTENDS Integers, Sequences, FiniteSets, Bags, TLC

VARIABLES
    library,            \* App.library : Library
    config,             \* App.config : Config
    current_view,       \* App.current_view
    search_query,       \* App.search_query
    selected_category,  \* App.selected_category : Option<CategoryId>
    selected_game,      \* App.selected_game : Option<GameId>
    sort_order,         \* App.sort_order
    new_game_name,      \* App.new_game_name (add-game form)
    new_game_path,      \* App.new_game_path (add-game form)
    tasks,              \* futures handed to the runtime and not finished yet
    inbox,              \* completion messages waiting for App::update
    libFile,            \* the library file on disk
    cfgFile,            \* the config file on disk
    nextGame,           \* GameId generator (Uuid::new_v4)
    nextCat,            \* CategoryId generator (Uuid::new_v4)
    loaded,             \* what the load future resolved to, until its message is handled
    before,             \* the Library a store operation was called on; the values the files hold
    call                \* the last store/codec operation called, its arguments and return value

vars == <<library, config, current_view, search_query, selected_category,
          selected_game, sort_order, new_game_name, new_game_path, tasks, inbox,
          libFile, cfgFile, nextGame, nextCat, loaded, before, call>>

appVars == <<library, config, current_view, search_query, selected_category,
             selected_game, sort_order, new_game_name, new_game_path>>

(***************************************************************************)
(* Bounds of the model                                                     *)
(***************************************************************************)
MaxGames == 1       \* GameIds the generator hands out
MaxNewCats == 1     \* CategoryIds handed out after the application's own defaults
MaxTime == 0        \* Utc::now() returns a time in 0..MaxTime
MaxInFlight == 2    \* futures in flight plus undelivered completion messages
MaxStoreGames == 2  \* GameIds of the games handed to the Library store on its own

(***************************************************************************)
(* Option, strings, small helpers                                          *)
(***************************************************************************)
None == <<>>
Some(x) == <<x>>
IsSome(o) == Len(o) = 1
Unwrap(o) == o[1]

Range(s) == {s[i] : i \in DOMAIN s}

RemoveAt(s, i) == [j \in 1..(Len(s) - 1) |-> IF j < i THEN s[j] ELSE s[j + 1]]

\* str::trim: strips leading and trailing whitespace
RECURSIVE TrimStart(_)
TrimStart(s) == IF s # <<>> /\ Head(s) = " " THEN TrimStart(Tail(s)) ELSE s

RECURSIVE TrimEnd(_)
TrimEnd(s) ==
    IF s # <<>> /\ s[Len(s)] = " " THEN TrimEnd(SubSeq(s, 1, Len(s) - 1)) ELSE s

Trim(s) == TrimEnd(TrimStart(s))

\* a path holding this unit is not valid UTF-8 (possible for an OsString on Unix)
BadByte == "\\xFF"
IsUtf8(p) == BadByte \notin Range(p)

\* the characters the inputs are written in, in code point order
Alphabet == <<" ", "-", "/", "2", "A", "F", "L", "O", "P", "Q", "R", "T", "a", "d",
              "f", "l", "o", "p", "q", "r", "t", "w", "x", "y", "z">>
CodePoint(c) == CHOOSE i \in DOMAIN Alphabet : Alphabet[i] = c

\* char::to_lowercase and str::to_lowercase
LowerChar(c) ==
    CASE c = "A" -> "a" [] c = "F" -> "f" [] c = "L" -> "l" [] c = "O" -> "o"
      [] c = "P" -> "p" [] c = "Q" -> "q" [] c = "R" -> "r" [] c = "T" -> "t"
      [] OTHER -> c
to_lowercase(s) == [i \in DOMAIN s |-> LowerChar(s[i])]

\* str::contains
contains(s, pat) ==
    \E i \in 1..(Len(s) - Len(pat) + 1) : SubSeq(s, i, i + Len(pat) - 1) = pat

\* Ord for str: "Less", "Equal" or "Greater", byte by byte, a prefix first
RECURSIVE cmp_str(_, _)
cmp_str(a, b) ==
    IF a = <<>> THEN (IF b = <<>> THEN "Equal" ELSE "Less")
    ELSE IF b = <<>> THEN "Greater"
    ELSE IF CodePoint(Head(a)) < CodePoint(Head(b)) THEN "Less"
    ELSE IF CodePoint(Head(a)) > CodePoint(Head(b)) THEN "Greater"
    ELSE cmp_str(Tail(a), Tail(b))

\* an ordering of Option<T> where None is greater than any Some
cmp_opt_none_greatest(a, b) ==
    IF a = None THEN (IF b = None THEN "Equal" ELSE "Greater")
    ELSE IF b = None THEN "Less"
    ELSE IF Unwrap(a) < Unwrap(b) THEN "Less"
    ELSE IF Unwrap(a) > Unwrap(b) THEN "Greater" ELSE "Equal"

\* Ord for integers and for Option<T>, where None is less than any Some
cmp_int(a, b) == IF a < b THEN "Less" ELSE IF a > b THEN "Greater" ELSE "Equal"
cmp_opt(a, b) ==
    IF a = None THEN (IF b = None THEN "Equal" ELSE "Less")
    ELSE IF b = None THEN "Greater"
    ELSE cmp_int(Unwrap(a), Unwrap(b))

\* the comparators get_filtered_games and games_sorted hand to sort_by
compare(order, a, b) ==
    CASE order = "NameAsc" -> cmp_str(to_lowercase(a.name), to_lowercase(b.name))
      [] order = "NameDesc" -> cmp_str(to_lowercase(b.name), to_lowercase(a.name))
      [] order = "LastPlayed" -> cmp_opt(b.last_played, a.last_played)
      [] order = "RecentlyAdded" -> cmp_int(b.added_date, a.added_date)
      [] order = "MostPlayed" -> cmp_int(b.playtime_minutes, a.playtime_minutes)

\* slice::sort_by: a stable sort, here by insertion from the left
RECURSIVE InsertSorted(_, _, _)
InsertSorted(sorted, x, order) ==
    IF sorted = <<>> THEN <<x>>
    ELSE IF compare(order, sorted[Len(sorted)], x) = "Greater"
         THEN Append(InsertSorted(SubSeq(sorted, 1, Len(sorted) - 1), x, order),
                     sorted[Len(sorted)])
         ELSE Append(sorted, x)

RECURSIVE sort_by(_, _)
sort_by(s, order) ==
    IF s = <<>> THEN <<>>
    ELSE InsertSorted(sort_by(SubSeq(s, 1, Len(s) - 1), order), s[Len(s)], order)

(***************************************************************************)
(* HashMap                                                                 *)
(***************************************************************************)
EmptyMap == <<>>
MapInsert(m, k, v) == [x \in (DOMAIN m) \cup {k} |-> IF x = k THEN v ELSE m[x]]
MapRemove(m, k) == [x \in (DOMAIN m) \ {k} |-> m[x]]
MapGet(m, k) == IF k \in DOMAIN m THEN Some(m[k]) ELSE None

\* HashMap::values(): the values in the map's iteration order, which the
\* caller cannot choose; ord lists the keys in that order.
RECURSIVE Values(_, _)
Values(m, ord) ==
    IF ord = <<>> THEN <<>>
    ELSE IF Head(ord) \in DOMAIN m THEN <<m[Head(ord)]>> \o Values(m, Tail(ord))
    ELSE Values(m, Tail(ord))

\* the orders in which a map with these keys can be iterated
Orders(keys) ==
    {o \in [1..Cardinality(keys) -> keys] : \A i, j \in DOMAIN o : i # j => o[i] # o[j]}

(***************************************************************************)
(* Category (src/data/category.rs)                                         *)
(***************************************************************************)
Category_with_color(id, name, color) ==
    [id |-> id, name |-> name, color |-> Some(color), icon |-> None]

Category_new(id, name) ==
    [id |-> id, name |-> name, color |-> None, icon |-> None]

\* the seeded categories; each takes the next CategoryId after base
default_categories(base) ==
    << Category_with_color(base + 1, "Action", "#E74C3C"),
       Category_with_color(base + 2, "RPG", "#9B59B6"),
       Category_with_color(base + 3, "Strategy", "#3498DB"),
       Category_with_color(base + 4, "Puzzle", "#2ECC71"),
       Category_with_color(base + 5, "Simulation", "#F39C12"),
       Category_with_color(base + 6, "Sports", "#1ABC9C"),
       Category_with_color(base + 7, "Indie", "#E91E63") >>

NumDefaultCategories == Len(default_categories(0))

(***************************************************************************)
(* Game (src/data/game.rs)                                                 *)
(***************************************************************************)
Game_new(id, name, executable_path, source, now) ==
    [id |-> id, name |-> name, executable_path |-> executable_path,
     install_path |-> None, source |-> source, source_id |-> None,
     categories |-> <<>>, favorite |-> FALSE, icon_path |-> None,
     banner_path |-> None, last_played |-> None, playtime_minutes |-> 0,
     added_date |-> now, launch_args |-> None]

Game_from_import(id, name, executable_path, install_path, source, source_id, now) ==
    [id |-> id, name |-> name, executable_path |-> executable_path,
     install_path |-> Some(install_path), source |-> source,
     source_id |-> Some(source_id),
     categories |-> <<>>, favorite |-> FALSE, icon_path |-> None,
     banner_path |-> None, last_played |-> None, playtime_minutes |-> 0,
     added_date |-> now, launch_args |-> None]

\* the width of a u64, scaled down, and its largest value
U64Bits == 3   \* bits of a u64 in the model
U64Max == 2 ^ U64Bits - 1

\* Game::add_playtime: `+=` on a u64 panics on overflow when the build has
\* overflow checks (debug), and wraps around when it has none (release)
Game_add_playtime(g, minutes, overflow_checks) ==
    IF overflow_checks /\ g.playtime_minutes + minutes > U64Max
    THEN [panicked |-> TRUE, game |-> g]
    ELSE [panicked |-> FALSE,
          game |-> [g EXCEPT !.playtime_minutes = (@ + minutes) % (U64Max + 1)]]

Game_mark_played(g, now) == [g EXCEPT !.last_played = Some(now)]

Game_toggle_favorite(g) == [g EXCEPT !.favorite = ~g.favorite]

Game_has_category(g, category_id) == category_id \in Range(g.categories)

\* an add_category that pushes without looking
Game_add_category_push(g, category_id) ==
    [g EXCEPT !.categories = Append(@, category_id)]

Game_add_category(g, category_id) ==
    IF ~Game_has_category(g, category_id)
    THEN [g EXCEPT !.categories = Append(@, category_id)]
    ELSE g

Game_remove_category(g, category_id) ==
    [g EXCEPT !.categories = SelectSeq(@, LAMBDA c : c # category_id)]

(***************************************************************************)
(* Library (src/data/library.rs)                                           *)
(***************************************************************************)
Library_new(base) ==
    [games |-> EmptyMap,
     categories |-> [c \in (base + 1)..(base + NumDefaultCategories) |->
                        default_categories(base)[c - base]]]

Library_add_game(lib, game) == [lib EXCEPT !.games = MapInsert(@, game.id, game)]

\* a remove_game that hands the game out and leaves it in the map
Library_remove_game_keep(lib, id) ==
    [lib |-> lib, ret |-> MapGet(lib.games, id)]

\* the library after remove_game, and what remove_game returns
Library_remove_game(lib, id) ==
    [lib |-> [lib EXCEPT !.games = MapRemove(@, id)], ret |-> MapGet(lib.games, id)]

Library_get_game(lib, id) == MapGet(lib.games, id)

Library_all_games(lib, ord) == Values(lib.games, ord)

\* a games_sorted that leaves the games as the map yields them
Library_games_sorted_unsorted(lib, order, ord) == Values(lib.games, ord)

\* Library::games_sorted
Library_games_sorted(lib, order, ord) == sort_by(Values(lib.games, ord), order)

Library_games_in_category(lib, category_id, ord) ==
    SelectSeq(Values(lib.games, ord), LAMBDA g : Game_has_category(g, category_id))

\* a search that compares the letters as they are
Library_search_games_exact(lib, query, ord) ==
    SelectSeq(Values(lib.games, ord), LAMBDA g : contains(g.name, query))

Library_search_games(lib, query, ord) ==
    SelectSeq(Values(lib.games, ord),
              LAMBDA g : contains(to_lowercase(g.name), to_lowercase(query)))

Library_favorite_games(lib, ord) ==
    SelectSeq(Values(lib.games, ord), LAMBDA g : g.favorite)

Library_game_count(lib) == Cardinality(DOMAIN lib.games)

Library_add_category(lib, category) ==
    [lib EXCEPT !.categories = MapInsert(@, category.id, category)]

\* a remove_category that forgets the games
Library_remove_category_no_cascade(lib, id) ==
    [lib |-> [lib EXCEPT !.categories = MapRemove(@, id)],
     ret |-> MapGet(lib.categories, id)]

\* the library after remove_category, and what remove_category returns
Library_remove_category(lib, id) ==
    [lib |-> [games |-> [g \in DOMAIN lib.games |->
                            Game_remove_category(lib.games[g], id)],
              categories |-> MapRemove(lib.categories, id)],
     ret |-> MapGet(lib.categories, id)]

\* get_game_mut(id) followed by a change of the game found, if any
UpdateGameIn(lib, id, F(_)) ==
    IF id \in DOMAIN lib.games
    THEN [lib EXCEPT !.games[id] = F(lib.games[id])]
    ELSE lib

(***************************************************************************)
(* Config (src/data/config.rs)                                             *)
(***************************************************************************)
Config_default ==
    [theme |-> "dark", start_minimized |-> FALSE, close_to_tray |-> FALSE,
     default_sort |-> "NameAsc", default_view_mode |-> "Grid",
     card_size |-> "Medium", show_sources |-> TRUE,
     steam_library_paths |-> <<>>,
     last_sync |-> [steam |-> None, epic |-> None, gog |-> None]]

(***************************************************************************)
(* serde_json: values are serialized to a JSON document and parsed back.   *)
(* A JSON value is null, a bool, a number, a string, an array or an object *)
(* (a function from its keys to its members).                              *)
(***************************************************************************)
Ok(v) == <<"Ok", v>>
Err(e) == <<"Err", e>>
IsOk(r) == r[1] = "Ok"
Val(r) == r[2]

JNull == <<"null">>
JBool(b) == <<"bool", b>>
JNum(n) == <<"num", n>>
JStr(s) == <<"str", s>>
JArr(a) == <<"arr", a>>
JObj(f) == <<"obj", f>>
JKind(j) == j[1]

\* Uuid <-> its hyphenated string
UuidStr(id) == "uuid-" \o ToString(id)
IdUniverse == 0..(2 * NumDefaultCategories + MaxGames + MaxNewCats + 2)
UuidParse(str) ==
    IF \E id \in IdUniverse : UuidStr(id) = str
    THEN Ok(CHOOSE id \in IdUniverse : UuidStr(id) = str)
    ELSE Err("Deserialization")

\* DateTime<Utc> <-> its RFC 3339 string
DateStr(t) == "1970-01-01T00:00:0" \o ToString(t) \o "Z"
TimeUniverse == 0..(MaxTime + 2)
DateParse(str) ==
    IF \E t \in TimeUniverse : DateStr(t) = str
    THEN Ok(CHOOSE t \in TimeUniverse : DateStr(t) = str)
    ELSE Err("Deserialization")

\* Option<T>: None is null, Some(x) is x
OptToJson(o, ToJ(_)) == IF IsSome(o) THEN ToJ(Unwrap(o)) ELSE JNull

\* serde refuses a path that is not UTF-8, so a value holding one has no document
PathSerializable(p) == IsUtf8(p)
OptPathSerializable(o) == IsSome(o) => PathSerializable(Unwrap(o))

GameSerializable(g) ==
    /\ PathSerializable(g.executable_path)
    /\ OptPathSerializable(g.install_path)
    /\ OptPathSerializable(g.icon_path)
    /\ OptPathSerializable(g.banner_path)

LibrarySerializable(lib) == \A id \in DOMAIN lib.games : GameSerializable(lib.games[id])

UuidToJson(id) == JStr(UuidStr(id))
DateToJson(t) == JStr(DateStr(t))

GameToJson_lossy(g) ==
    JObj([id |-> UuidToJson(g.id),
          name |-> JStr(g.name),
          executable_path |-> JStr(g.executable_path),
          install_path |-> OptToJson(g.install_path, JStr),
          source |-> JStr(g.source),
          source_id |-> OptToJson(g.source_id, JStr),
          categories |-> JArr([i \in DOMAIN g.categories |-> UuidToJson(g.categories[i])]),
          favorite |-> JBool(g.favorite),
          icon_path |-> OptToJson(g.icon_path, JStr),
          banner_path |-> OptToJson(g.banner_path, JStr),
          last_played |-> JNull,
          playtime_minutes |-> JNum(g.playtime_minutes),
          added_date |-> DateToJson(g.added_date),
          launch_args |-> OptToJson(g.launch_args, JStr)])

\* #[derive(Serialize)] for Game
GameToJson(g) ==
    JObj([id |-> UuidToJson(g.id),
          name |-> JStr(g.name),
          executable_path |-> JStr(g.executable_path),
          install_path |-> OptToJson(g.install_path, JStr),
          source |-> JStr(g.source),
          source_id |-> OptToJson(g.source_id, JStr),
          categories |-> JArr([i \in DOMAIN g.categories |-> UuidToJson(g.categories[i])]),
          favorite |-> JBool(g.favorite),
          icon_path |-> OptToJson(g.icon_path, JStr),
          banner_path |-> OptToJson(g.banner_path, JStr),
          last_played |-> OptToJson(g.last_played, DateToJson),
          playtime_minutes |-> JNum(g.playtime_minutes),
          added_date |-> DateToJson(g.added_date),
          launch_args |-> OptToJson(g.launch_args, JStr)])

\* #[derive(Serialize)] for Category
CategoryToJson(c) ==
    JObj([id |-> UuidToJson(c.id),
          name |-> JStr(c.name),
          color |-> OptToJson(c.color, JStr),
          icon |-> OptToJson(c.icon, JStr)])

\* a HashMap keyed by an id is an object keyed by the id's string
MapToJson(m, ToJ(_)) ==
    JObj([k \in {UuidStr(id) : id \in DOMAIN m} |->
             ToJ(m[CHOOSE id \in DOMAIN m : UuidStr(id) = k])])

\* #[derive(Serialize)] for Library
LibraryToJson(lib) ==
    JObj([games |-> MapToJson(lib.games, GameToJson),
          categories |-> MapToJson(lib.categories, CategoryToJson)])

\* #[derive(Serialize)] for Config
ConfigToJson(c) ==
    JObj([theme |-> JStr(c.theme),
          start_minimized |-> JBool(c.start_minimized),
          close_to_tray |-> JBool(c.close_to_tray),
          default_sort |-> JStr(c.default_sort),
          default_view_mode |-> JStr(c.default_view_mode),
          card_size |-> JStr(c.card_size),
          show_sources |-> JBool(c.show_sources),
          steam_library_paths |->
              JArr([i \in DOMAIN c.steam_library_paths |-> JStr(c.steam_library_paths[i])]),
          last_sync |-> JObj([steam |-> OptToJson(c.last_sync.steam, DateToJson),
                              epic |-> OptToJson(c.last_sync.epic, DateToJson),
                              gog |-> OptToJson(c.last_sync.gog, DateToJson)])])

(***************************************************************************)
(* Deserialization: every field is required and must have its type         *)
(***************************************************************************)
StrFromJson(j) == IF JKind(j) = "str" THEN Ok(j[2]) ELSE Err("Deserialization")
BoolFromJson(j) == IF JKind(j) = "bool" THEN Ok(j[2]) ELSE Err("Deserialization")
U64FromJson(j) ==
    IF JKind(j) = "num" /\ j[2] >= 0 THEN Ok(j[2]) ELSE Err("Deserialization")
UuidFromJson(j) == IF JKind(j) = "str" THEN UuidParse(j[2]) ELSE Err("Deserialization")
DateFromJson(j) == IF JKind(j) = "str" THEN DateParse(j[2]) ELSE Err("Deserialization")
EnumFromJson(j, variants) ==
    IF JKind(j) = "str" /\ j[2] \in variants THEN Ok(j[2]) ELSE Err("Deserialization")

GameSources == {"Steam", "Epic", "GOG", "Manual"}
SortOrders == {"NameAsc", "NameDesc", "LastPlayed", "RecentlyAdded", "MostPlayed"}
ViewModes == {"Grid", "List"}
CardSizes == {"Small", "Medium", "Large"}

OptFromJson(j, FromJ(_)) ==
    IF JKind(j) = "null" THEN Ok(None)
    ELSE IF IsOk(FromJ(j)) THEN Ok(Some(Val(FromJ(j)))) ELSE FromJ(j)

ArrFromJson(j, FromJ(_)) ==
    IF JKind(j) = "arr" /\ \A i \in DOMAIN j[2] : IsOk(FromJ(j[2][i]))
    THEN Ok([i \in DOMAIN j[2] |-> Val(FromJ(j[2][i]))])
    ELSE Err("Deserialization")

AllOk(results) == \A i \in DOMAIN results : IsOk(results[i])

HasFields(j, names) == JKind(j) = "obj" /\ names \subseteq DOMAIN j[2]

GameFields ==
    {"id", "name", "executable_path", "install_path", "source", "source_id",
     "categories", "favorite", "icon_path", "banner_path", "last_played",
     "playtime_minutes", "added_date", "launch_args"}

\* #[derive(Deserialize)] for Game
GameFromJson(j) ==
    IF ~HasFields(j, GameFields) THEN Err("Deserialization")
    ELSE LET o == j[2]
             id == UuidFromJson(o.id)
             name == StrFromJson(o.name)
             exe == StrFromJson(o.executable_path)
             inst == OptFromJson(o.install_path, StrFromJson)
             src == EnumFromJson(o.source, GameSources)
             sid == OptFromJson(o.source_id, StrFromJson)
             cats == ArrFromJson(o.categories, UuidFromJson)
             fav == BoolFromJson(o.favorite)
             icon == OptFromJson(o.icon_path, StrFromJson)
             banner == OptFromJson(o.banner_path, StrFromJson)
             played == OptFromJson(o.last_played, DateFromJson)
             mins == U64FromJson(o.playtime_minutes)
             added == DateFromJson(o.added_date)
             args == OptFromJson(o.launch_args, StrFromJson)
         IN  IF AllOk(<<id, name, exe, inst, src, sid, cats, fav, icon, banner,
                          played, mins, added, args>>)
             THEN Ok([id |-> Val(id), name |-> Val(name),
                      executable_path |-> Val(exe), install_path |-> Val(inst),
                      source |-> Val(src), source_id |-> Val(sid),
                      categories |-> Val(cats), favorite |-> Val(fav),
                      icon_path |-> Val(icon), banner_path |-> Val(banner),
                      last_played |-> Val(played), playtime_minutes |-> Val(mins),
                      added_date |-> Val(added), launch_args |-> Val(args)])
             ELSE Err("Deserialization")

\* #[derive(Deserialize)] for Category
CategoryFromJson(j) ==
    IF ~HasFields(j, {"id", "name", "color", "icon"}) THEN Err("Deserialization")
    ELSE LET o == j[2]
             id == UuidFromJson(o.id)
             name == StrFromJson(o.name)
             color == OptFromJson(o.color, StrFromJson)
             icon == OptFromJson(o.icon, StrFromJson)
         IN  IF IsOk(id) /\ IsOk(name) /\ IsOk(color) /\ IsOk(icon)
             THEN Ok([id |-> Val(id), name |-> Val(name),
                      color |-> Val(color), icon |-> Val(icon)])
             ELSE Err("Deserialization")

MapFromJson(j, FromJ(_)) ==
    IF /\ JKind(j) = "obj"
       /\ \A k \in DOMAIN j[2] : IsOk(UuidParse(k)) /\ IsOk(FromJ(j[2][k]))
    THEN Ok([id \in {Val(UuidParse(k)) : k \in DOMAIN j[2]} |-> Val(FromJ(j[2][UuidStr(id)]))])
    ELSE Err("Deserialization")

\* #[derive(Deserialize)] for Library
LibraryFromJson(j) ==
    IF ~HasFields(j, {"games", "categories"}) THEN Err("Deserialization")
    ELSE LET games == MapFromJson(j[2].games, GameFromJson)
             categories == MapFromJson(j[2].categories, CategoryFromJson)
         IN  IF IsOk(games) /\ IsOk(categories)
             THEN Ok([games |-> Val(games), categories |-> Val(categories)])
             ELSE Err("Deserialization")

ConfigFields ==
    {"theme", "start_minimized", "close_to_tray", "default_sort", "default_view_mode",
     "card_size", "show_sources", "steam_library_paths", "last_sync"}

\* #[derive(Deserialize)] for Config
ConfigFromJson(j) ==
    IF ~HasFields(j, ConfigFields) THEN Err("Deserialization")
    ELSE IF ~HasFields(j[2].last_sync, {"steam", "epic", "gog"}) THEN Err("Deserialization")
    ELSE LET o == j[2]
             theme == StrFromJson(o.theme)
             startMin == BoolFromJson(o.start_minimized)
             tray == BoolFromJson(o.close_to_tray)
             sort == EnumFromJson(o.default_sort, SortOrders)
             mode == EnumFromJson(o.default_view_mode, ViewModes)
             card == EnumFromJson(o.card_size, CardSizes)
             show == BoolFromJson(o.show_sources)
             paths == ArrFromJson(o.steam_library_paths, StrFromJson)
             steam == OptFromJson(o.last_sync[2].steam, DateFromJson)
             epic == OptFromJson(o.last_sync[2].epic, DateFromJson)
             gog == OptFromJson(o.last_sync[2].gog, DateFromJson)
         IN  IF AllOk(<<theme, startMin, tray, sort, mode, card, show, paths,
                          steam, epic, gog>>)
             THEN Ok([theme |-> Val(theme), start_minimized |-> Val(startMin),
                      close_to_tray |-> Val(tray), default_sort |-> Val(sort),
                      default_view_mode |-> Val(mode), card_size |-> Val(card),
                      show_sources |-> Val(show), steam_library_paths |-> Val(paths),
                      last_sync |-> [steam |-> Val(steam), epic |-> Val(epic),
                                     gog |-> Val(gog)]])
             ELSE Err("Deserialization")

(***************************************************************************)
(* Files.  A file is missing, present but unreadable, or holds a text; a   *)
(* text is the JSON text of some value or bytes that are not JSON.         *)
(***************************************************************************)
Missing == <<"missing">>
Unreadable == <<"unreadable">>
FileWith(text) == <<"file", text>>
JsonText(j) == <<"json", j>>
Garbage == <<"garbage">>

\* serde_json::from_str followed by the typed deserializer
from_str(text, FromJ(_)) ==
    IF text[1] = "json" THEN FromJ(text[2]) ELSE Err("Deserialization")

\* fs::read_to_string
read_to_string(file) == IF file[1] = "file" THEN Ok(file[2]) ELSE Err("Io")

\* what the disk does to a save: everything succeeds, create_dir_all or
\* File::create fails, or File::create truncates the file and write_all fails
DiskOutcomes == {"ok", "create_fails", "write_fails"}

\* Library::save_to_file: the file afterwards and the Result returned
Library_save_to_file(lib, file, disk) ==
    IF ~LibrarySerializable(lib) THEN [file |-> file, ret |-> Err("Serialization")]
    ELSE IF disk = "create_fails" THEN [file |-> file, ret |-> Err("Io")]
    ELSE IF disk = "write_fails" THEN [file |-> FileWith(Garbage), ret |-> Err("Io")]
    ELSE [file |-> FileWith(JsonText(LibraryToJson(lib))), ret |-> Ok(<<>>)]

Library_load_from_file(file) ==
    IF ~IsOk(read_to_string(file)) THEN Err("Io")
    ELSE from_str(Val(read_to_string(file)), LibraryFromJson)

Library_load_or_create_empty(file, base) ==
    IF IsOk(Library_load_from_file(file))
    THEN Val(Library_load_from_file(file))
    ELSE [games |-> EmptyMap, categories |-> EmptyMap]

\* Library::load_or_create; base is where the id generator stands
Library_load_or_create(file, base) ==
    IF IsOk(Library_load_from_file(file))
    THEN Val(Library_load_from_file(file))
    ELSE Library_new(base)

Config_save_to_file(cfg, file, disk) ==
    IF disk = "create_fails" THEN [file |-> file, ret |-> Err("Io")]
    ELSE IF disk = "write_fails" THEN [file |-> FileWith(Garbage), ret |-> Err("Io")]
    ELSE [file |-> FileWith(JsonText(ConfigToJson(cfg))), ret |-> Ok(<<>>)]

Config_load_from_file(file) ==
    IF ~IsOk(read_to_string(file)) THEN Err("Io")
    ELSE from_str(Val(read_to_string(file)), ConfigFromJson)

Config_load_or_create(file) ==
    IF IsOk(Config_load_from_file(file))
    THEN Val(Config_load_from_file(file))
    ELSE Config_default

(***************************************************************************)
(* The file system the importers read (src/import).  A path is a string of *)
(* characters; fs maps the paths that exist to what is there: a file with  *)
(* its text, or a directory with its listing.                              *)
(***************************************************************************)
starts_with(s, prefix) ==
    Len(prefix) <= Len(s) /\ SubSeq(s, 1, Len(prefix)) = prefix
ends_with(s, suffix) ==
    Len(suffix) <= Len(s) /\ SubSeq(s, Len(s) - Len(suffix) + 1, Len(s)) = suffix

\* the last position of character c in s, 0 when there is none
LastIndexOf(s, c) ==
    IF \E i \in DOMAIN s : s[i] = c
    THEN CHOOSE i \in DOMAIN s : s[i] = c /\ \A j \in (i + 1)..Len(s) : s[j] # c
    ELSE 0

\* Path::join, Path::file_name, Path::parent, Path::extension
Join(dir, name) == dir \o <<"/">> \o name
file_name(p) == SubSeq(p, LastIndexOf(p, "/") + 1, Len(p))
parent(p) ==
    IF LastIndexOf(p, "/") = 1 THEN <<"/">> ELSE SubSeq(p, 1, LastIndexOf(p, "/") - 1)
extension(p) ==
    IF LastIndexOf(file_name(p), ".") > 1
    THEN Some(SubSeq(file_name(p), LastIndexOf(file_name(p), ".") + 1, Len(file_name(p))))
    ELSE None

\* what is at a path: a file (readable or not, executable or not) or a
\* directory (listable or not; entries in the order read_dir yields them)
FileNode(text, readable, executable) ==
    [kind |-> "file", text |-> text, readable |-> readable, executable |-> executable,
     entries |-> <<>>]
DirNode(listable, entries) ==
    [kind |-> "dir", text |-> <<>>, readable |-> listable, executable |-> FALSE,
     entries |-> entries]

\* Path::exists, Path::is_file, fs::read_to_string, fs::read_dir (with the
\* entries flattened to their paths), is_executable on Unix
path_exists(fs, p) == p \in DOMAIN fs
is_file(fs, p) == p \in DOMAIN fs /\ fs[p].kind = "file"
fs_read_to_string(fs, p) ==
    IF is_file(fs, p) /\ fs[p].readable THEN Ok(fs[p].text) ELSE Err("IoError")
read_dir(fs, p) ==
    IF p \in DOMAIN fs /\ fs[p].kind = "dir" /\ fs[p].readable
    THEN Ok([i \in DOMAIN fs[p].entries |-> Join(p, fs[p].entries[i])])
    ELSE Err("IoError")
is_executable(fs, p) == p \in DOMAIN fs /\ fs[p].executable


\* what a file holds: the lines of a VDF text, a JSON document, or neither
\* (then str::lines gives one line that holds no key)
VdfText(lines) == <<"vdf", lines>>
lines(text) == IF text[1] = "vdf" THEN text[2] ELSE <<text>>

\* str::split(c): the pieces between the occurrences of c
RECURSIVE split(_, _)
split(s, c) ==
    IF \E i \in DOMAIN s : s[i] = c
    THEN LET i == CHOOSE k \in DOMAIN s : s[k] = c /\ \A j \in 1..(k - 1) : s[j] # c
         IN  <<SubSeq(s, 1, i - 1)>> \o split(SubSeq(s, i + 1, Len(s)), c)
    ELSE <<s>>

RECURSIVE Flatten(_)
Flatten(seqs) == IF seqs = <<>> THEN <<>> ELSE Head(seqs) \o Flatten(Tail(seqs))

(***************************************************************************)
(* Steam (src/import/steam.rs)                                             *)
(***************************************************************************)
Quote == "\""

\* extract_vdf_value: the fourth piece of a line split at the quotes
extract_vdf_value(line) ==
    LET parts == split(line, Quote)
    IN  IF Len(parts) >= 4 THEN Some(parts[4]) ELSE None

\* extract_vdf_value_by_key: the value of the first line that starts with "key"
extract_vdf_value_by_key(content, key) ==
    LET search == <<Quote>> \o key \o <<Quote>>
        hit(i) == starts_with(to_lowercase(Trim(lines(content)[i])), to_lowercase(search))
    IN  IF \E i \in DOMAIN lines(content) : hit(i)
        THEN extract_vdf_value(Trim(lines(content)[
                 CHOOSE i \in DOMAIN lines(content) : hit(i) /\ \A j \in 1..(i - 1) : ~hit(j)]))
        ELSE None

\* sort_by_key(file name length): a stable sort
RECURSIVE sort_by_name_len(_)
sort_by_name_len(paths) ==
    IF paths = <<>> THEN <<>>
    ELSE LET rest == sort_by_name_len(SubSeq(paths, 1, Len(paths) - 1))
             p == paths[Len(paths)]
             n == Cardinality({i \in DOMAIN rest : Len(file_name(rest[i])) <= Len(file_name(p))})
         IN  SubSeq(rest, 1, n) \o <<p>> \o SubSeq(rest, n + 1, Len(rest))

\* a find_executable_in_dir that takes the first executable file of the listing
find_executable_in_dir_first(fs, dir) ==
    IF IsOk(read_dir(fs, dir))
    THEN LET executable(p) == is_file(fs, p) /\ is_executable(fs, p)
             candidates == SelectSeq(Val(read_dir(fs, dir)), executable)
         IN  IF candidates = <<>> THEN None ELSE Some(Head(candidates))
    ELSE None

find_executable_in_dir(fs, dir) ==
    IF IsOk(read_dir(fs, dir))
    THEN LET executable(p) == is_file(fs, p) /\ is_executable(fs, p)
             candidates == sort_by_name_len(SelectSeq(Val(read_dir(fs, dir)), executable))
         IN  IF candidates = <<>> THEN None ELSE Some(Head(candidates))
    ELSE None

parse_app_manifest(fs, path) ==
    LET content == fs_read_to_string(fs, path)
        app_id == extract_vdf_value_by_key(Val(content), <<"a", "p", "p", "i", "d">>)
        name == extract_vdf_value_by_key(Val(content), <<"n", "a", "m", "e">>)
        install_dir == extract_vdf_value_by_key(Val(content), <<"i", "n", "s", "t", "a", "l", "l", "d", "i", "r">>)
        install_path == Join(Join(parent(path), <<"c", "o", "m", "m", "o", "n">>), Unwrap(install_dir))
    IN  IF ~IsOk(content) THEN None
        ELSE IF app_id = None \/ name = None \/ install_dir = None THEN None
        ELSE IF ~path_exists(fs, install_path) THEN None
        ELSE IF find_executable_in_dir(fs, install_path) = None THEN None
        ELSE Some([name |-> Unwrap(name), source_id |-> Unwrap(app_id),
                   executable_path |-> Unwrap(find_executable_in_dir(fs, install_path)),
                   install_path |-> install_path, icon_path |-> None])

\* the "path" lines of libraryfolders.vdf, each added once if its steamapps exists
RECURSIVE more_folders(_, _, _)
more_folders(fs, folders, rest) ==
    IF rest = <<>> THEN folders
    ELSE LET line == Trim(Head(rest))
             steamapps == Join(Unwrap(extract_vdf_value(line)), <<"s", "t", "e", "a", "m", "a", "p", "p", "s">>)
         IN  IF /\ starts_with(line, <<Quote>> \o <<"p", "a", "t", "h">> \o <<Quote>>)
                /\ extract_vdf_value(line) # None
                /\ path_exists(fs, steamapps)
                /\ steamapps \notin Range(folders)
             THEN more_folders(fs, Append(folders, steamapps), Tail(rest))
             ELSE more_folders(fs, folders, Tail(rest))

get_library_folders(steam_path, fs) ==
    IF steam_path = None THEN Err("NotInstalled")
    ELSE LET steamapps == Join(Unwrap(steam_path), <<"s", "t", "e", "a", "m", "a", "p", "p", "s">>)
             vdf_path == Join(steamapps, <<"l", "i", "b", "r", "a", "r", "y", "f", "o", "l", "d", "e", "r", "s", ".", "v", "d", "f">>)
         IN  IF ~path_exists(fs, vdf_path) THEN Ok(<<steamapps>>)
             ELSE IF ~IsOk(fs_read_to_string(fs, vdf_path)) THEN Err("IoError")
             ELSE Ok(more_folders(fs, <<steamapps>>,
                                  lines(Val(fs_read_to_string(fs, vdf_path)))))

Steam_is_available(steam_path) == steam_path # None

\* a folder scan that gives up at the first manifest it cannot parse
Steam_scan_folder_strict(fs, folder) ==
    IF IsOk(read_dir(fs, folder))
    THEN LET manifest(path) ==
                 /\ starts_with(file_name(path), <<"a", "p", "p", "m", "a", "n", "i", "f", "e", "s", "t", "_">>)
                 /\ ends_with(file_name(path), <<".", "a", "c", "f">>)
             paths == SelectSeq(Val(read_dir(fs, folder)), manifest)
         IN  IF \E i \in DOMAIN paths : parse_app_manifest(fs, paths[i]) = None
             THEN <<>>
             ELSE [i \in DOMAIN paths |-> Unwrap(parse_app_manifest(fs, paths[i]))]
    ELSE <<>>

\* the games of one library folder; a folder that cannot be listed gives none
Steam_scan_folder(fs, folder) ==
    IF IsOk(read_dir(fs, folder))
    THEN LET found(path) ==
                 /\ IsUtf8(file_name(path))
                 /\ starts_with(file_name(path), <<"a", "p", "p", "m", "a", "n", "i", "f", "e", "s", "t", "_">>)
                 /\ ends_with(file_name(path), <<".", "a", "c", "f">>)
                 /\ parse_app_manifest(fs, path) # None
             paths == SelectSeq(Val(read_dir(fs, folder)), found)
         IN  [i \in DOMAIN paths |-> Unwrap(parse_app_manifest(fs, paths[i]))]
    ELSE <<>>

Steam_scan_games(steam_path, fs) ==
    LET library_folders == get_library_folders(steam_path, fs)
    IN  IF ~IsOk(library_folders) THEN library_folders
        ELSE Ok(Flatten([i \in DOMAIN Val(library_folders) |->
                            Steam_scan_folder(fs, Val(library_folders)[i])]))

(***************************************************************************)
(* Epic (src/import/epic.rs)                                               *)
(***************************************************************************)
\* serde_json::Value::get, as_str, as_array; from_str to a Value
Value_get(j, key) ==
    IF JKind(j) = "obj" /\ key \in DOMAIN j[2] THEN Some(j[2][key]) ELSE None
as_str(o) == IF o # None /\ JKind(Unwrap(o)) = "str" THEN Some(Unwrap(o)[2]) ELSE None
as_array(o) == IF o # None /\ JKind(Unwrap(o)) = "arr" THEN Some(Unwrap(o)[2]) ELSE None
Value_from_str(text) == IF text[1] = "json" THEN Ok(text[2]) ELSE Err("Deserialization")

Epic_parse_manifest(fs, path) ==
    LET content == fs_read_to_string(fs, path)
        manifest == Value_from_str(Val(content))
        name == as_str(Value_get(Val(manifest), "DisplayName"))
        install_location == as_str(Value_get(Val(manifest), "InstallLocation"))
        app_name == as_str(Value_get(Val(manifest), "AppName"))
        launch_executable == as_str(Value_get(Val(manifest), "LaunchExecutable"))
        executable_path == Join(Unwrap(install_location), Unwrap(launch_executable))
    IN  IF ~IsOk(content) THEN None
        ELSE IF ~IsOk(manifest) THEN None
        ELSE IF name = None \/ install_location = None \/ app_name = None
                \/ launch_executable = None THEN None
        ELSE IF ~path_exists(fs, executable_path) THEN None
        ELSE Some([name |-> Unwrap(name), source_id |-> Unwrap(app_name),
                   executable_path |-> executable_path,
                   install_path |-> Unwrap(install_location), icon_path |-> None])

Epic_is_available(manifests_path) == manifests_path # None

\* a scan that reports nothing found, whatever the locator found
Epic_scan_games_empty(manifests_path, fs) == Ok(<<>>)

Epic_scan_games(manifests_path, fs) ==
    IF manifests_path = None THEN Err("NotInstalled")
    ELSE IF IsOk(read_dir(fs, Unwrap(manifests_path)))
    THEN LET found(path) ==
                 /\ extension(path) = Some(<<"i", "t", "e", "m">>)
                 /\ Epic_parse_manifest(fs, path) # None
             paths == SelectSeq(Val(read_dir(fs, Unwrap(manifests_path))), found)
         IN  Ok([i \in DOMAIN paths |-> Unwrap(Epic_parse_manifest(fs, paths[i]))])
    ELSE Ok(<<>>)

(***************************************************************************)
(* GOG (src/import/gog.rs).  The database either cannot be opened, has no  *)
(* InstalledBaseProducts table, or answers the query with rows, each a     *)
(* (productId, localPath) pair or a row that cannot be read.               *)
(***************************************************************************)
DbOpenFails == <<"open_fails">>
DbPrepareFails == <<"prepare_fails">>
DbRows(rows) == <<"rows", rows>>

\* i64::to_string of a non-negative number
RECURSIVE i64_to_string(_)
i64_to_string(n) ==
    IF n < 10 THEN <<ToString(n)>> ELSE i64_to_string(n \div 10) \o <<ToString(n % 10)>>

\* the loop of find_game_in_folder over the entries still to visit
RECURSIVE find_game_in_entries(_, _, _, _)
find_game_in_entries(fs, entries, install_path, product_id) ==
    IF entries = <<>> THEN None
    ELSE LET path == Head(entries)
             next == find_game_in_entries(fs, Tail(entries), install_path, product_id)
             content == fs_read_to_string(fs, path)
             info == Value_from_str(Val(content))
             game_name == as_str(Value_get(Val(info), "name"))
             play_tasks == as_array(Value_get(Val(info), "playTasks"))
             exe_path == as_str(Value_get(Head(Unwrap(play_tasks)), "path"))
             executable_path == Join(install_path, Unwrap(exe_path))
         IN  IF ~(/\ IsUtf8(file_name(path))
                  /\ starts_with(file_name(path), <<"g", "o", "g", "g", "a", "m", "e", "-">>)
                  /\ ends_with(file_name(path), <<".", "i", "n", "f", "o">>)) THEN next
             ELSE IF ~IsOk(content) THEN next
             ELSE IF ~IsOk(info) THEN next
             ELSE IF game_name = None \/ play_tasks = None THEN None
             ELSE IF Unwrap(play_tasks) = <<>> THEN next
             ELSE IF exe_path = None THEN None
             ELSE IF ~path_exists(fs, executable_path) THEN next
             ELSE Some([name |-> Unwrap(game_name),
                        source_id |-> i64_to_string(product_id),
                        executable_path |-> executable_path,
                        install_path |-> install_path, icon_path |-> None])

find_game_in_folder(fs, install_path, product_id) ==
    IF IsOk(read_dir(fs, install_path))
    THEN find_game_in_entries(fs, Val(read_dir(fs, install_path)), install_path, product_id)
    ELSE None

GOG_is_available(database_path) == database_path # None

\* a scan that goes to the database without looking at the locator's answer
GOG_scan_games_unchecked(database_path, db, fs, gog_feature) ==
    IF ~gog_feature THEN Err("NotInstalled") ELSE Err("DatabaseError")

\* scan_games as compiled with the "gog" feature and without it
GOG_scan_games(database_path, db, fs, gog_feature) ==
    IF ~gog_feature THEN Err("NotInstalled")
    ELSE IF database_path = None THEN Err("NotInstalled")
    ELSE IF db = DbOpenFails \/ db = DbPrepareFails THEN Err("DatabaseError")
    ELSE LET found(row) ==
                 /\ IsOk(row)
                 /\ path_exists(fs, Val(row)[2])
                 /\ find_game_in_folder(fs, Val(row)[2], Val(row)[1]) # None
             rows == SelectSeq(db[2], found)
         IN  Ok([i \in DOMAIN rows |->
                    Unwrap(find_game_in_folder(fs, Val(rows[i])[2], Val(rows[i])[1]))])

(***************************************************************************)
(* Process launch (src/launcher/process.rs)                                *)
(***************************************************************************)
\* parse_args: one turn of the loop over the characters, then the loop
parse_args_step(st, c) ==
    IF c \in {Quote, "'"} /\ ~st.in_quotes
    THEN [st EXCEPT !.in_quotes = TRUE, !.quote_char = c]
    ELSE IF c = st.quote_char /\ st.in_quotes
    THEN [st EXCEPT !.in_quotes = FALSE]
    ELSE IF c = " " /\ ~st.in_quotes
    THEN IF st.current # <<>>
         THEN [st EXCEPT !.args = Append(@, st.current), !.current = <<>>]
         ELSE st
    ELSE [st EXCEPT !.current = Append(@, c)]

\* the loop `for c in args_str.chars()`, started with the variables st; the
\* test of next, which always holds, has each step evaluated before the next
RECURSIVE parse_args_loop(_, _)
parse_args_loop(st, chars) ==
    IF chars = <<>> THEN st
    ELSE LET next == parse_args_step(st, Head(chars))
         IN  IF next.in_quotes \in BOOLEAN THEN parse_args_loop(next, Tail(chars)) ELSE next

\* a parse_args that also ends a token at a tab
parse_args_tabs(args_str) ==
    LET st == parse_args_loop([args |-> <<>>, current |-> <<>>, in_quotes |-> FALSE,
                               quote_char |-> " "],
                              [i \in DOMAIN args_str |->
                                  IF args_str[i] = "\t" THEN " " ELSE args_str[i]])
    IN  IF st.current # <<>> THEN Append(st.args, st.current) ELSE st.args

parse_args(args_str) ==
    LET st == parse_args_loop([args |-> <<>>, current |-> <<>>, in_quotes |-> FALSE,
                               quote_char |-> " "], args_str)
    IN  IF st.current # <<>> THEN Append(st.args, st.current) ELSE st.args

\* a launch_game that reports every failure as SpawnFailed
launch_game_merged(exists, spawns) ==
    IF ~exists THEN Err("SpawnFailed")
    ELSE IF ~spawns THEN Err("SpawnFailed")
    ELSE Ok(<<>>)

\* the Command launch_game spawns, if it gets as far as spawning
launch_game_command(executable_path, launch_args, exists) ==
    IF ~exists THEN None
    ELSE Some([program |-> executable_path,
               current_dir |-> IF executable_path \in {<<>>, <<"/">>} THEN None
                               ELSE Some(parent(executable_path)),
               args |-> IF launch_args # None THEN parse_args(Unwrap(launch_args))
                        ELSE <<>>])

\* launch_game, given what the filesystem and the OS answer:
\* exists = executable_path.exists(), spawns = Command::spawn succeeds
launch_game(exists, spawns) ==
    IF ~exists THEN Err("ExecutableNotFound")
    ELSE IF ~spawns THEN Err("SpawnFailed")
    ELSE Ok(<<>>)

(***************************************************************************)
(* The runtime: App::update returns a Task; the runtime runs its future on *)
(* an executor and, when it resolves, queues the message its closure makes *)
(* for a later call of App::update.                                        *)
(***************************************************************************)
InitTask == [kind |-> "init", library |-> None, exe |-> <<>>, args |-> None]
LoadTask == [kind |-> "load", library |-> None, exe |-> <<>>, args |-> None]
LaunchTask(exe_path, launch_args) ==
    [kind |-> "launch", library |-> None, exe |-> exe_path, args |-> launch_args]

\* App::save_library: the future owns a clone of the library as it is now
save_library(lib) ==
    [kind |-> "save", library |-> Some(lib), exe |-> <<>>, args |-> None]

Msg(type, result) == <<type, result>>

InFlight == BagCardinality(tasks) + Len(inbox)
CanDispatch == InFlight < MaxInFlight

Spawn(task) == tasks' = tasks (+) SetToBag({task})
Finish(task, msg) ==
    /\ tasks' = tasks (-) SetToBag({task})
    /\ inbox' = Append(inbox, msg)

Times == 0..MaxTime

envVars == <<libFile, cfgFile>>
harnessVars == <<before, call>>

(***************************************************************************)
(* App (src/app.rs)                                                        *)
(***************************************************************************)
\* App::default: the state App::new starts from; its Library::new() takes
\* the first CategoryIds
App_default_library == Library_new(0)

uiVars == <<current_view, search_query, selected_category, selected_game, sort_order>>
formVars == <<new_game_name, new_game_path>>
idVars == <<nextGame, nextCat>>

\* Message::NavigateTo
NavigateTo(view) ==
    /\ current_view' = view
    /\ UNCHANGED <<library, config, search_query, selected_category, selected_game,
                   sort_order, formVars, tasks, inbox, envVars, idVars, loaded, harnessVars>>

\* Message::GameSelected
GameSelected(id) ==
    /\ selected_game' = Some(id)
    /\ UNCHANGED <<library, config, current_view, search_query, selected_category,
                   sort_order, formVars, tasks, inbox, envVars, idVars, loaded, harnessVars>>

\* Message::LaunchGame
LaunchGame(id) ==
    /\ IF id \in DOMAIN library.games
       THEN /\ CanDispatch
            /\ \E now \in Times :
                   library' = UpdateGameIn(library, id, LAMBDA g : Game_mark_played(g, now))
            /\ Spawn(LaunchTask(library.games[id].executable_path,
                                library.games[id].launch_args))
       ELSE UNCHANGED <<library, tasks>>
    /\ UNCHANGED <<config, uiVars, formVars, inbox, envVars, idVars, loaded, harnessVars>>

\* a completion message is taken from the queue by the handler that matches it
Receive(type) ==
    /\ inbox # <<>>
    /\ Head(inbox)[1] = type
    /\ inbox' = Tail(inbox)

\* Message::GameLaunched
GameLaunched ==
    /\ inbox # <<>>
    /\ Head(inbox)[1] = "GameLaunched"
    /\ inbox' = Tail(inbox)
    /\ Spawn(save_library(library))
    /\ UNCHANGED <<library, config, uiVars, formVars, envVars, idVars, loaded, harnessVars>>

\* Message::SearchChanged
SearchChanged(query) ==
    /\ search_query' = query
    /\ UNCHANGED <<library, config, current_view, selected_category, selected_game,
                   sort_order, formVars, tasks, inbox, envVars, idVars, loaded, harnessVars>>

\* Message::CategorySelected
CategorySelected(category) ==
    /\ selected_category' = category
    /\ UNCHANGED <<library, config, current_view, search_query, selected_game,
                   sort_order, formVars, tasks, inbox, envVars, idVars, loaded, harnessVars>>

\* Message::SortChanged
SortChanged(order) ==
    /\ sort_order' = order
    /\ UNCHANGED <<library, config, current_view, search_query, selected_category,
                   selected_game, formVars, tasks, inbox, envVars, idVars, loaded,
                   harnessVars>>

\* Message::AddGamePressed
AddGamePressed ==
    /\ current_view' = "AddGame"
    /\ new_game_name' = <<>>
    /\ new_game_path' = <<>>
    /\ UNCHANGED <<library, config, search_query, selected_category, selected_game,
                   sort_order, tasks, inbox, envVars, idVars, loaded, harnessVars>>

\* Message::AddGame
AddGame(game) ==
    /\ CanDispatch
    /\ library' = Library_add_game(library, game)
    /\ current_view' = "Library"
    /\ Spawn(save_library(library'))
    /\ UNCHANGED <<config, search_query, selected_category, selected_game, sort_order,
                   formVars, inbox, envVars, nextCat, loaded, harnessVars>>

\* App::view_add_game: the "Add Game" button carries AddGame(Game::new(..)) built
\* from the trimmed form fields, and only when both are non-blank
can_add == Trim(new_game_name) # <<>> /\ Trim(new_game_path) # <<>>

AddGameFromForm ==
    /\ current_view = "AddGame"
    /\ can_add
    /\ nextGame < MaxGames
    /\ nextGame' = nextGame + 1
    /\ \E now \in Times :
           AddGame(Game_new(nextGame + 1, Trim(new_game_name), Trim(new_game_path),
                            "Manual", now))

\* Message::RemoveGame
RemoveGame(id) ==
    /\ CanDispatch
    /\ library' = Library_remove_game(library, id).lib
    /\ selected_game' = IF selected_game = Some(id) THEN None ELSE selected_game
    /\ Spawn(save_library(library'))
    /\ UNCHANGED <<config, current_view, search_query, selected_category, sort_order,
                   formVars, inbox, envVars, idVars, loaded, harnessVars>>

\* Message::EditGame
EditGame(id) ==
    /\ current_view' = <<"GameDetail", id>>
    /\ UNCHANGED <<library, config, search_query, selected_category, selected_game,
                   sort_order, formVars, tasks, inbox, envVars, idVars, loaded, harnessVars>>

\* an UpdateGame body that takes launch_args and icon_path as the update has them
ApplyGameUpdate_replace(g, update) ==
    [g EXCEPT
       !.name = IF IsSome(update.name) THEN Unwrap(update.name) ELSE @,
       !.executable_path =
           IF IsSome(update.executable_path) THEN Unwrap(update.executable_path) ELSE @,
       !.launch_args = update.launch_args,
       !.icon_path = update.icon_path]

\* the body of the UpdateGame handler: the fields the update carries are copied
ApplyGameUpdate(g, update) ==
    [g EXCEPT
       !.name = IF IsSome(update.name) THEN Unwrap(update.name) ELSE @,
       !.executable_path =
           IF IsSome(update.executable_path) THEN Unwrap(update.executable_path) ELSE @,
       !.launch_args = IF IsSome(update.launch_args) THEN update.launch_args ELSE @,
       !.icon_path = IF IsSome(update.icon_path) THEN update.icon_path ELSE @]

\* Message::UpdateGame
UpdateGame(id, update) ==
    /\ CanDispatch
    /\ library' = UpdateGameIn(library, id, LAMBDA g : ApplyGameUpdate(g, update))
    /\ Spawn(save_library(library'))
    /\ UNCHANGED <<config, uiVars, formVars, inbox, envVars, idVars, loaded, harnessVars>>

\* a ToggleFavorite that returns Task::none()
ToggleFavorite_unsaved(id) ==
    /\ library' = UpdateGameIn(library, id, Game_toggle_favorite)
    /\ UNCHANGED <<config, uiVars, formVars, tasks, inbox, envVars, idVars, loaded,
                   harnessVars>>

\* Message::ToggleFavorite
ToggleFavorite(id) ==
    /\ CanDispatch
    /\ library' = UpdateGameIn(library, id, Game_toggle_favorite)
    /\ Spawn(save_library(library'))
    /\ UNCHANGED <<config, uiVars, formVars, inbox, envVars, idVars, loaded, harnessVars>>

\* Message::NewGameNameChanged
NewGameNameChanged(name) ==
    /\ new_game_name' = name
    /\ UNCHANGED <<library, config, uiVars, new_game_path, tasks, inbox, envVars, idVars,
                   loaded, harnessVars>>

\* Message::NewGamePathChanged
NewGamePathChanged(path) ==
    /\ new_game_path' = path
    /\ UNCHANGED <<library, config, uiVars, new_game_name, tasks, inbox, envVars, idVars,
                   loaded, harnessVars>>

\* Message::AddCategory
AddCategory(name) ==
    /\ CanDispatch
    /\ nextCat < NumDefaultCategories + MaxNewCats
    /\ nextCat' = nextCat + 1
    /\ library' = Library_add_category(library, Category_new(nextCat + 1, name))
    /\ Spawn(save_library(library'))
    /\ UNCHANGED <<config, uiVars, formVars, inbox, envVars, nextGame, loaded, harnessVars>>

\* Message::RemoveCategory
RemoveCategory(id) ==
    /\ CanDispatch
    /\ library' = Library_remove_category(library, id).lib
    /\ selected_category' = IF selected_category = Some(id) THEN None ELSE selected_category
    /\ Spawn(save_library(library'))
    /\ UNCHANGED <<config, current_view, search_query, selected_game, sort_order,
                   formVars, inbox, envVars, idVars, loaded, harnessVars>>

\* Message::AssignCategory
AssignCategory(game_id, category_id) ==
    /\ CanDispatch
    /\ library' = UpdateGameIn(library, game_id, LAMBDA g : Game_add_category(g, category_id))
    /\ Spawn(save_library(library'))
    /\ UNCHANGED <<config, uiVars, formVars, inbox, envVars, idVars, loaded, harnessVars>>

\* Message::UnassignCategory
UnassignCategory(game_id, category_id) ==
    /\ CanDispatch
    /\ library' = UpdateGameIn(library, game_id,
                               LAMBDA g : Game_remove_category(g, category_id))
    /\ Spawn(save_library(library'))
    /\ UNCHANGED <<config, uiVars, formVars, inbox, envVars, idVars, loaded, harnessVars>>

\* Message::SaveLibrary
SaveLibrary ==
    /\ CanDispatch
    /\ Spawn(save_library(library))
    /\ UNCHANGED <<library, config, uiVars, formVars, inbox, envVars, idVars, loaded,
                   harnessVars>>

\* Message::LibrarySaved
LibrarySaved ==
    /\ Receive("LibrarySaved")
    /\ UNCHANGED <<library, config, uiVars, formVars, tasks, envVars, idVars, loaded,
                   harnessVars>>

\* Message::LoadLibrary
LoadLibrary ==
    /\ Receive("LoadLibrary")
    /\ Spawn(LoadTask)
    /\ UNCHANGED <<library, config, uiVars, formVars, envVars, idVars, loaded, harnessVars>>

\* Message::LibraryLoaded: nothing of what was loaded reaches the App
LibraryLoaded ==
    /\ Receive("LibraryLoaded")
    /\ loaded' = None
    /\ UNCHANGED <<library, config, uiVars, formVars, tasks, envVars, idVars, harnessVars>>

\* the games of an ImportComplete(Ok(..)): detected games converted one by
\* one, each taking the next GameId
RECURSIVE AddGames(_, _)
AddGames(lib, games) ==
    IF games = <<>> THEN lib ELSE AddGames(Library_add_game(lib, Head(games)), Tail(games))

\* an ImportComplete arm that saves after a failed import as well
ImportCompleteArm_saves(result) ==
    /\ library' = IF IsOk(result) THEN AddGames(library, Val(result)) ELSE library
    /\ Spawn(save_library(library'))

\* Message::ImportComplete: the match on the result
ImportCompleteArm(result) ==
    IF IsOk(result)
    THEN /\ library' = AddGames(library, Val(result))
         /\ Spawn(save_library(library'))
    ELSE UNCHANGED <<library, tasks>>

\* Message::ImportComplete
ImportComplete(result) ==
    /\ IsOk(result) => CanDispatch
    /\ ImportCompleteArm(result)
    /\ UNCHANGED <<config, uiVars, formVars, inbox, envVars, nextCat, loaded, harnessVars>>

\* Message::ImportComplete as the runtime delivers it, the games converted by
\* into_game before the message was sent
ImportCompleteDelivered ==
    /\ inbox # <<>>
    /\ Head(inbox)[1] = "ImportComplete"
    /\ inbox' = Tail(inbox)
    /\ ImportCompleteArm(Head(inbox)[2])
    /\ UNCHANGED <<config, uiVars, formVars, envVars, idVars, loaded, harnessVars>>

\* create_manual_game (src/import/manual.rs)
create_manual_game(id, name, executable_path, now) ==
    Game_new(id, name, executable_path, "Manual", now)

\* DetectedGame::into_game (src/import/mod.rs)
\* an into_game that builds the game as the add-game form does
DetectedGame_into_game_new(d, source, id, now) ==
    Game_new(id, d.name, d.executable_path, source, now)

DetectedGame_into_game(d, source, id, now) ==
    Game_from_import(id, d.name, d.executable_path, d.install_path, source, d.source_id, now)

\* a scan result converted for ImportComplete: the i-th game takes the i-th next id
ImportedGames(detected, source, base, now) ==
    [i \in DOMAIN detected |-> DetectedGame_into_game(detected[i], source, base + i, now)]

ImportCompleteOk(detected, source) ==
    /\ nextGame + Len(detected) <= MaxGames
    /\ nextGame' = nextGame + Len(detected)
    /\ \E now \in Times :
           ImportComplete(Ok(ImportedGames(detected, source, nextGame, now)))

ImportCompleteErr(e) ==
    /\ ImportComplete(Err(e))
    /\ UNCHANGED nextGame

\* a list that narrows the category's games by the search query as well
get_filtered_games_and(ord) ==
    LET games ==
            IF selected_category # None
            THEN SelectSeq(Library_games_in_category(library, Unwrap(selected_category), ord),
                           LAMBDA g : contains(to_lowercase(g.name),
                                               to_lowercase(search_query)))
            ELSE IF search_query # <<>>
            THEN Library_search_games(library, search_query, ord)
            ELSE Library_all_games(library, ord)
    IN  sort_by(games, sort_order)

\* a list that is always sorted by name
get_filtered_games_by_name(ord) == sort_by(Library_all_games(library, ord), "NameAsc")

\* App::get_filtered_games; ord is the order the HashMap iterates in
get_filtered_games(ord) ==
    LET games ==
            IF selected_category # None
            THEN Library_games_in_category(library, Unwrap(selected_category), ord)
            ELSE IF search_query # <<>>
            THEN Library_search_games(library, search_query, ord)
            ELSE Library_all_games(library, ord)
    IN  sort_by(games, sort_order)

(***************************************************************************)
(* The futures                                                             *)
(***************************************************************************)
\* the ids Library::new() draws inside the load future
LoadIdBase == NumDefaultCategories + MaxNewCats

\* App::new: Task::perform(async {}, |_| Message::LoadLibrary)
RunInit ==
    /\ BagIn(InitTask, tasks)
    /\ Finish(InitTask, Msg("LoadLibrary", <<>>))
    /\ UNCHANGED <<appVars, envVars, idVars, loaded, harnessVars>>

\* a load future that writes what it loaded into the store it shares with the App
RunLoad_into_store ==
    /\ BagIn(LoadTask, tasks)
    /\ loaded' = Some(<<Library_load_or_create(libFile, LoadIdBase),
                        Config_load_or_create(cfgFile)>>)
    /\ library' = Library_load_or_create(libFile, LoadIdBase)
    /\ config' = Config_load_or_create(cfgFile)
    /\ Finish(LoadTask, Msg("LibraryLoaded", Ok(<<>>)))
    /\ UNCHANGED <<uiVars, formVars, envVars, idVars, harnessVars>>

\* the future of Message::LoadLibrary; its closure |_| drops the value
RunLoad ==
    /\ BagIn(LoadTask, tasks)
    /\ loaded' = Some(<<Library_load_or_create(libFile, LoadIdBase),
                        Config_load_or_create(cfgFile)>>)
    /\ Finish(LoadTask, Msg("LibraryLoaded", Ok(<<>>)))
    /\ UNCHANGED <<appVars, envVars, idVars, harnessVars>>

\* the future of App::save_library
RunSave(task, disk) ==
    /\ BagIn(task, tasks)
    /\ task.kind = "save"
    /\ libFile' = Library_save_to_file(Unwrap(task.library), libFile, disk).file
    /\ Finish(task, Msg("LibrarySaved",
                        Library_save_to_file(Unwrap(task.library), libFile, disk).ret))
    /\ UNCHANGED <<appVars, cfgFile, idVars, loaded, harnessVars>>

\* the future of Message::LaunchGame
RunLaunch(task, exists, spawns) ==
    /\ BagIn(task, tasks)
    /\ task.kind = "launch"
    /\ Finish(task, Msg("GameLaunched", launch_game(exists, spawns)))
    /\ UNCHANGED <<appVars, envVars, idVars, loaded, harnessVars>>

(***************************************************************************)
(* The application: what it starts from and what can happen to it          *)
(***************************************************************************)
\* a library and a config written by an earlier run of the program
StoredGame ==
    [Game_new(0, <<"O", "l", "d">>, <<"/", "o">>, "Manual", 0)
        EXCEPT !.last_played = Some(0), !.categories = <<0>>, !.favorite = TRUE]
StoredLibrary ==
    [games |-> [id \in {0} |-> StoredGame],
     categories |-> [id \in {0} |-> Category_new(0, "Old")]]
StoredConfig == [Config_default EXCEPT !.theme = "light", !.close_to_tray = TRUE]

InitialLibFiles == {Missing, FileWith(JsonText(LibraryToJson(StoredLibrary)))}
InitialCfgFiles == {FileWith(JsonText(ConfigToJson(StoredConfig)))}

GameIdInputs == 1..MaxGames
CatInputs == {1, NumDefaultCategories + 1}
GameNames == {<<"P">>}
ExePaths == {<<"/", "a">>}
NameInputs == {<<" ", "P">>}
PathInputs == {<<"/", "a", " ">>, <<" ">>}
CategoryNames == {"Horror"}
NoUpdate == [name |-> None, executable_path |-> None, launch_args |-> None, icon_path |-> None]
UpdateInputs ==
    {[NoUpdate EXCEPT !.name = Some(<<"Q">>)],
     [NoUpdate EXCEPT !.executable_path = Some(<<>>), !.launch_args = Some(<<"-", "w">>)]}
Detected ==
    [name |-> <<"T", "F">>, source_id |-> "440", executable_path |-> <<"/", "t">>,
     install_path |-> <<"/">>, icon_path |-> None]
ImportInputs == {<<Detected>>}
DiskAnswers == {"ok"}

Init ==
    /\ library = App_default_library
    /\ config = Config_default
    /\ current_view = "Library"
    /\ search_query = <<>>
    /\ selected_category = None
    /\ selected_game = None
    /\ sort_order = "NameAsc"
    /\ new_game_name = <<>>
    /\ new_game_path = <<>>
    /\ tasks = SetToBag({InitTask})
    /\ inbox = <<>>
    /\ libFile \in InitialLibFiles
    /\ cfgFile \in InitialCfgFiles
    /\ nextGame = 0
    /\ nextCat = NumDefaultCategories
    /\ loaded = None
    /\ before = None
    /\ call = None

\* AddGame carrying a game that Game::new built
AddGameNew(name, path) ==
    /\ nextGame < MaxGames
    /\ nextGame' = nextGame + 1
    /\ \E now \in Times : AddGame(Game_new(nextGame + 1, name, path, "Manual", now))

Next ==
    \/ RunInit
    \/ LoadLibrary
    \/ RunLoad
    \/ LibraryLoaded
    \/ \E name \in GameNames, path \in ExePaths : AddGameNew(name, path)
    \/ \E id \in GameIdInputs : LaunchGame(id)
    \/ \E task \in BagToSet(tasks), exists \in BOOLEAN, spawns \in BOOLEAN :
           RunLaunch(task, exists, spawns)
    \/ GameLaunched
    \/ SaveLibrary
    \/ \E task \in BagToSet(tasks), disk \in DiskAnswers : RunSave(task, disk)
    \/ LibrarySaved

Spec == Init /\ [][Next]_vars

(***************************************************************************)
(* Claims checked on Spec                                                  *)
(***************************************************************************)
\* App::update takes the completion message msg from the queue in this step
Handles(msg) == inbox # <<>> /\ Head(inbox) = msg /\ inbox' = Tail(inbox)
HandlesType(type) == inbox # <<>> /\ Head(inbox)[1] = type /\ inbox' = Tail(inbox)

\* a future finishes in this step
FutureFinishes == \E t \in BagToSet(tasks) : tasks' = tasks (-) SetToBag({t})

LastPlayedChanges ==
    \E id \in DOMAIN library.games :
        /\ id \in DOMAIN library'.games
        /\ library'.games[id].last_played # library.games[id].last_played

\* C1: a game's last_played changes only after a successful spawn, that is,
\* only in the step that handles GameLaunched(Ok); a launch whose spawn fails
\* leaves it as it was before LaunchGame.
C1_LastPlayedOnlyAfterSuccessfulSpawn ==
    [][LastPlayedChanges => Handles(Msg("GameLaunched", Ok(<<>>)))]_vars

\* C8: when LibraryLoaded is handled, the App's library and config become
\* the values load_or_create returned to the load future.
C8_LoadedValueDelivered ==
    [][HandlesType("LibraryLoaded") =>
          /\ library' = Unwrap(loaded)[1]
          /\ config' = Unwrap(loaded)[2]]_vars

\* save futures dispatched whose LibrarySaved has not been handled yet
SavesInFlight ==
    BagCardinality([t \in {t \in BagToSet(tasks) : t.kind = "save"} |-> tasks[t]])
    + Len(SelectSeq(inbox, LAMBDA m : m[1] = "LibrarySaved"))

\* C9: at most one library save is in flight at any time.
C9_AtMostOneSaveInFlight == SavesInFlight <= 1

SaveFutures == {t \in BagToSet(tasks) : t.kind = "save"}

\* C27: the snapshot of an earlier mutation never overwrites that of a later
\* one: when the library file holds the library the App has in memory and
\* the last save future in flight finishes, the file still holds it.
C27_LastSaveLeavesLatestState ==
    [][(/\ libFile = FileWith(JsonText(LibraryToJson(library)))
        /\ \E t \in SaveFutures : tasks' = tasks (-) SetToBag({t})
        /\ \A t \in BagToSet(tasks') : t.kind # "save")
       => libFile' = FileWith(JsonText(LibraryToJson(library')))]_vars

\* C10: the library and the config change only in steps of App::update; a
\* step in which a future (save, load, launch) finishes leaves them as they are.
C10_FuturesNeverModifyStore ==
    [][FutureFinishes => UNCHANGED <<library, config>>]_vars

\* C10 witness: a save future has written its clone of a non-empty library
\* and its LibrarySaved is queued, while the App's library is what it was
C10_Witness ==
    /\ libFile = FileWith(JsonText(LibraryToJson(library)))
    /\ library.games # EmptyMap
    /\ \E i \in DOMAIN inbox : inbox[i][1] = "LibrarySaved"

(***************************************************************************)
(* The library messages, from the state the App is in once startup is over *)
(***************************************************************************)
InitCat ==
    /\ library = App_default_library
    /\ config = Config_default
    /\ current_view = "Library"
    /\ search_query = <<>>
    /\ selected_category \in {None, Some(NumDefaultCategories + 1)}
    /\ selected_game = None
    /\ sort_order = "NameAsc"
    /\ new_game_name = <<>>
    /\ new_game_path = <<>>
    /\ tasks = EmptyBag
    /\ inbox = <<>>
    /\ libFile = Missing
    /\ cfgFile \in InitialCfgFiles
    /\ nextGame = 0
    /\ nextCat = NumDefaultCategories
    /\ loaded = None
    /\ before = None
    /\ call = None

NextCat ==
    \/ \E name \in GameNames, path \in ExePaths : AddGameNew(name, path)
    \/ \E detected \in ImportInputs : ImportCompleteOk(detected, "Steam")
    \/ \E id \in GameIdInputs : RemoveGame(id)
    \/ \E name \in CategoryNames : AddCategory(name)
    \/ \E id \in CatInputs : RemoveCategory(id)
    \/ \E game_id \in GameIdInputs, category_id \in CatInputs :
           AssignCategory(game_id, category_id)
    \/ \E game_id \in GameIdInputs, category_id \in CatInputs :
           UnassignCategory(game_id, category_id)
    \/ \E task \in BagToSet(tasks), disk \in DiskAnswers : RunSave(task, disk)
    \/ LibrarySaved

SpecCat == InitCat /\ [][NextCat]_vars

\* C2: every CategoryId in every game's categories is a key of the library's
\* categories map, in every state the messages can lead to.
C2_NoDanglingCategory ==
    \A id \in DOMAIN library.games :
        \A i \in DOMAIN library.games[id].categories :
            library.games[id].categories[i] \in DOMAIN library.categories

(***************************************************************************)
(* The Library store on its own: its methods called one after another on a *)
(* Library::new(), each call recorded with the library it was made on      *)
(***************************************************************************)
storeFrame == <<config, uiVars, formVars, tasks, inbox, envVars, nextGame, loaded>>

InitLib ==
    /\ library = Library_new(0)
    /\ config = Config_default
    /\ current_view = "Library"
    /\ search_query = <<>>
    /\ selected_category = None
    /\ selected_game = None
    /\ sort_order = "NameAsc"
    /\ new_game_name = <<>>
    /\ new_game_path = <<>>
    /\ tasks = EmptyBag
    /\ inbox = <<>>
    /\ libFile = Missing
    /\ cfgFile = Missing
    /\ nextGame = 0
    /\ nextCat = NumDefaultCategories
    /\ loaded = None
    /\ before = None
    /\ call = None

StoreGameIds == 1..MaxStoreGames
LastCallAdded(id) ==
    call # None /\ Unwrap(call).op = "add_game" /\ Unwrap(call).id = id

\* library.add_game(game)
StoreAddGame(id, name) ==
    /\ before' = Some(library)
    /\ library' = Library_add_game(library, Game_new(id, name, <<"/", "a">>, "Manual", 0))
    /\ call' = Some([op |-> "add_game", id |-> id, ret |-> None, after_add |-> FALSE])
    /\ UNCHANGED <<storeFrame, nextCat>>

\* library.remove_game(&id)
StoreRemoveGame(id) ==
    /\ before' = Some(library)
    /\ library' = Library_remove_game(library, id).lib
    /\ call' = Some([op |-> "remove_game", id |-> id,
                     ret |-> Library_remove_game(library, id).ret,
                     after_add |-> LastCallAdded(id)])
    /\ UNCHANGED <<storeFrame, nextCat>>

\* library.add_category(Category::new(name))
StoreAddCategory(name) ==
    /\ nextCat < NumDefaultCategories + MaxNewCats
    /\ nextCat' = nextCat + 1
    /\ before' = Some(library)
    /\ library' = Library_add_category(library, Category_new(nextCat + 1, name))
    /\ call' = Some([op |-> "add_category", id |-> nextCat + 1, ret |-> None,
                     after_add |-> FALSE])
    /\ UNCHANGED storeFrame

\* library.get_game_mut(&game_id), then game.add_category(category_id)
StoreAssign(game_id, category_id) ==
    /\ category_id \in DOMAIN library.categories
    /\ before' = Some(library)
    /\ library' = UpdateGameIn(library, game_id, LAMBDA g : Game_add_category(g, category_id))
    /\ call' = Some([op |-> "assign", id |-> game_id, ret |-> None, after_add |-> FALSE])
    /\ UNCHANGED <<storeFrame, nextCat>>

\* library.remove_category(&id)
StoreRemoveCategory(id) ==
    /\ before' = Some(library)
    /\ library' = Library_remove_category(library, id).lib
    /\ call' = Some([op |-> "remove_category", id |-> id,
                     ret |-> Library_remove_category(library, id).ret,
                     after_add |-> FALSE])
    /\ UNCHANGED <<storeFrame, nextCat>>

NextLib ==
    \/ \E id \in StoreGameIds, name \in GameNames : StoreAddGame(id, name)
    \/ \E id \in StoreGameIds : StoreRemoveGame(id)
    \/ \E name \in CategoryNames : StoreAddCategory(name)
    \/ \E game_id \in StoreGameIds, category_id \in CatInputs :
           StoreAssign(game_id, category_id)
    \/ \E id \in CatInputs : StoreRemoveCategory(id)

SpecLib == InitLib /\ [][NextLib]_vars

CalledOp(op) == call # None /\ Unwrap(call).op = op
HoldersOf(lib, category_id) ==
    {g \in DOMAIN lib.games : category_id \in Range(lib.games[g].categories)}

\* C3: after remove_category(id), whatever the number of games that held the
\* category, no game's categories contains id, id is not a key of the
\* categories map, and every game's category set is otherwise what it was.
C3_RemoveCategoryCascades ==
    CalledOp("remove_category") =>
        LET id == Unwrap(call).id
            old == Unwrap(before)
        IN /\ id \notin DOMAIN library.categories
           /\ HoldersOf(library, id) = {}
           /\ DOMAIN library.games = DOMAIN old.games
           /\ \A g \in DOMAIN old.games :
                  /\ Range(library.games[g].categories)
                         = Range(old.games[g].categories) \ {id}
                  /\ Len(library.games[g].categories)
                         = Cardinality(Range(library.games[g].categories))

\* C3 witness: remove_category was called on a library in which two games
\* held the category, and on one of them it was not the only category
C3_Witness ==
    /\ CalledOp("remove_category")
    /\ Cardinality(HoldersOf(Unwrap(before), Unwrap(call).id)) >= 2
    /\ \E g \in DOMAIN library.games : library.games[g].categories # <<>>

\* C4: after remove_game(id), get_game(id) is None and all_games() holds no
\* game with that id, also when the game had just been added; remove_game
\* returns the removed game when it was present, and None, leaving the
\* library as it was, when it was absent.
C4_RemoveGame ==
    CalledOp("remove_game") =>
        LET id == Unwrap(call).id
            old == Unwrap(before)
        IN /\ Library_get_game(library, id) = None
           /\ \A ord \in Orders(DOMAIN library.games) :
                  \A i \in DOMAIN Library_all_games(library, ord) :
                      Library_all_games(library, ord)[i].id # id
           /\ id \in DOMAIN old.games =>
                  /\ Unwrap(call).ret = Some(old.games[id])
                  /\ library.categories = old.categories
                  /\ \A g \in DOMAIN old.games \ {id} :
                         Library_get_game(library, g) = Some(old.games[g])
           /\ id \notin DOMAIN old.games =>
                  /\ Unwrap(call).ret = None
                  /\ library = old

\* C4 witness: remove_game(g.id) right after add_game(g) returned g, with
\* another game left in the library
C4_Witness ==
    /\ CalledOp("remove_game")
    /\ Unwrap(call).after_add
    /\ Unwrap(call).ret # None
    /\ library.games # EmptyMap

(***************************************************************************)
(* App::get_filtered_games on its own: the view calls it on the library    *)
(* and the filters the App holds                                           *)
(***************************************************************************)
ViewNames == {<<"P", "o">>, <<"T", "o", "p">>}
ViewCategories == {1, 2}
ViewQueries == {<<>>, <<"P", "O">>, <<"t">>}

\* the games a library can hold under one id: added by AddGame, then
\* assigned to at most one of the categories
ViewGames(id) ==
    {[Game_new(id, name, <<"/", "a">>, "Manual", 0) EXCEPT !.categories = cats] :
        name \in ViewNames, cats \in {<<>>} \cup {<<c>> : c \in ViewCategories}}

ViewLibraries ==
    UNION {{[Library_new(0) EXCEPT !.games = games] :
               games \in {f \in [ids -> UNION {ViewGames(id) : id \in ids}] :
                             \A id \in ids : f[id] \in ViewGames(id)}} :
           ids \in SUBSET StoreGameIds}

InitView ==
    /\ library \in ViewLibraries
    /\ config = Config_default
    /\ current_view = "Library"
    /\ search_query \in ViewQueries
    /\ selected_category \in {None} \cup {Some(c) : c \in ViewCategories}
    /\ selected_game = None
    /\ sort_order \in SortOrders
    /\ new_game_name = <<>>
    /\ new_game_path = <<>>
    /\ tasks = EmptyBag
    /\ inbox = <<>>
    /\ libFile = Missing
    /\ cfgFile = Missing
    /\ nextGame = MaxStoreGames
    /\ nextCat = NumDefaultCategories
    /\ loaded = None
    /\ before = None
    /\ call = None

\* the view asks for the list; ord is the order the HashMap iterates in
ViewGameList(ord) ==
    /\ call' = Some([op |-> "get_filtered_games", ret |-> get_filtered_games(ord)])
    /\ UNCHANGED <<appVars, tasks, inbox, envVars, idVars, loaded, before>>

NextView == \E ord \in Orders(DOMAIN library.games) : ViewGameList(ord)

SpecView == InitView /\ [][NextView]_vars

IdsOf(games) == {games[i].id : i \in DOMAIN games}
Matching(lib, query) ==
    {g \in DOMAIN lib.games :
        contains(to_lowercase(lib.games[g].name), to_lowercase(query))}

\* C5: with a category X selected, the filtered list is exactly the games
\* whose categories contain X, whatever the search query; the query is
\* applied only when no category is selected.
C5_CategoryOverridesSearch ==
    CalledOp("get_filtered_games") =>
        LET ret == Unwrap(call).ret
        IN /\ Len(ret) = Cardinality(IdsOf(ret))
           /\ \A i \in DOMAIN ret : ret[i] = library.games[ret[i].id]
           /\ selected_category # None =>
                  IdsOf(ret) = HoldersOf(library, Unwrap(selected_category))
           /\ selected_category = None /\ search_query # <<>> =>
                  IdsOf(ret) = Matching(library, search_query)
           /\ selected_category = None /\ search_query = <<>> =>
                  IdsOf(ret) = DOMAIN library.games

\* C5 witness: the list was computed with a category selected and a query
\* typed, where a game of the category does not match the query and a game
\* outside the category does
C5_Witness ==
    /\ CalledOp("get_filtered_games")
    /\ selected_category # None
    /\ search_query # <<>>
    /\ HoldersOf(library, Unwrap(selected_category)) \ Matching(library, search_query) # {}
    /\ Matching(library, search_query) \ HoldersOf(library, Unwrap(selected_category)) # {}
    /\ Unwrap(call).ret # <<>>

(***************************************************************************)
(* Persistence on its own: save_to_file, load_from_file and load_or_create *)
(* of Library and Config, called one after another on the two files        *)
(***************************************************************************)
\* a game with every optional field set
FullGame ==
    [Game_from_import(2, <<"T", "F">>, <<"/", "t">>, <<"/">>, "Steam", "440", 1)
        EXCEPT !.categories = <<2, 1>>, !.favorite = TRUE, !.icon_path = Some(<<"/", "a">>),
               !.banner_path = Some(<<"/", "o">>), !.last_played = Some(1),
               !.playtime_minutes = 2, !.launch_args = Some(<<"-", "w">>)]

\* a game whose executable's file name is not valid UTF-8
BadPathGame == Game_new(1, <<"P">>, <<"/", BadByte>>, "Manual", 0)

CodecLibraries ==
    {Library_new(0),
     Library_add_game(Library_add_game(Library_new(0), FullGame),
                      Game_new(1, <<"P">>, <<"/", "a">>, "Manual", 0)),
     Library_add_game(Library_new(0), BadPathGame)}

\* files that do not hold a library: absent, unreadable, not JSON, JSON of
\* another shape
BadLibFiles ==
    {Missing, Unreadable, FileWith(Garbage), FileWith(JsonText(JNull)),
     FileWith(JsonText(JObj([games |-> JObj(<<>>)])))}
BadCfgFiles == {Missing, Unreadable, FileWith(Garbage), FileWith(JsonText(JArr(<<>>)))}

\* before, here: the values whose save wrote the two files as they are now
Written(lib, cfg) == Some([lib |-> lib, cfg |-> cfg])

codecFrame == <<uiVars, formVars, tasks, inbox, idVars, loaded>>

InitCodec ==
    /\ library \in CodecLibraries
    /\ config \in {Config_default, StoredConfig}
    /\ current_view = "Library"
    /\ search_query = <<>>
    /\ selected_category = None
    /\ selected_game = None
    /\ sort_order = "NameAsc"
    /\ new_game_name = <<>>
    /\ new_game_path = <<>>
    /\ tasks = EmptyBag
    /\ inbox = <<>>
    /\ \E stored \in BOOLEAN :
           /\ libFile \in IF stored THEN {FileWith(JsonText(LibraryToJson(StoredLibrary)))}
                          ELSE BadLibFiles
           /\ cfgFile \in IF stored THEN {FileWith(JsonText(ConfigToJson(StoredConfig)))}
                          ELSE BadCfgFiles
           /\ before = IF stored THEN Written(Some(StoredLibrary), Some(StoredConfig))
                       ELSE Written(None, None)
    /\ nextGame = MaxGames
    /\ nextCat = NumDefaultCategories
    /\ loaded = None
    /\ call = None

\* what a save leaves of the record of the file's origin
AfterSave(was, value, file, result) ==
    IF IsOk(result.ret) THEN Some(value) ELSE IF result.file = file THEN was ELSE None

\* library.save_to_file(path)
CodecSaveLibrary(disk) ==
    LET result == Library_save_to_file(library, libFile, disk)
    IN  /\ libFile' = result.file
        /\ before' = Written(AfterSave(Unwrap(before).lib, library, libFile, result),
                             Unwrap(before).cfg)
        /\ call' = Some([op |-> "Library::save_to_file", file |-> libFile,
                         ret |-> result.ret])
        /\ UNCHANGED <<library, config, cfgFile, codecFrame>>

\* Library::load_from_file(path)
CodecLoadLibrary ==
    LET result == Library_load_from_file(libFile)
    IN  /\ library' = IF IsOk(result) THEN Val(result) ELSE library
        /\ call' = Some([op |-> "Library::load_from_file", file |-> libFile,
                         ret |-> result])
        /\ UNCHANGED <<config, envVars, before, codecFrame>>

\* Library::load_or_create(path)
CodecLoadOrCreateLibrary ==
    /\ library' = Library_load_or_create(libFile, LoadIdBase)
    /\ call' = Some([op |-> "Library::load_or_create", file |-> libFile,
                     ret |-> Library_load_or_create(libFile, LoadIdBase)])
    /\ UNCHANGED <<config, envVars, before, codecFrame>>

\* config.save_to_file(path)
CodecSaveConfig(disk) ==
    LET result == Config_save_to_file(config, cfgFile, disk)
    IN  /\ cfgFile' = result.file
        /\ before' = Written(Unwrap(before).lib,
                             AfterSave(Unwrap(before).cfg, config, cfgFile, result))
        /\ call' = Some([op |-> "Config::save_to_file", file |-> cfgFile,
                         ret |-> result.ret])
        /\ UNCHANGED <<library, config, libFile, codecFrame>>

\* Config::load_or_create(path)
CodecLoadOrCreateConfig ==
    /\ config' = Config_load_or_create(cfgFile)
    /\ call' = Some([op |-> "Config::load_or_create", file |-> cfgFile,
                     ret |-> Config_load_or_create(cfgFile)])
    /\ UNCHANGED <<library, envVars, before, codecFrame>>

NextCodec ==
    \/ \E disk \in DiskOutcomes : CodecSaveLibrary(disk)
    \/ CodecLoadLibrary
    \/ CodecLoadOrCreateLibrary
    \/ \E disk \in DiskOutcomes : CodecSaveConfig(disk)
    \/ CodecLoadOrCreateConfig

SpecCodec == InitCodec /\ [][NextCodec]_vars

DefaultCategoryNames ==
    {"Action", "RPG", "Strategy", "Puzzle", "Simulation", "Sports", "Indie"}

\* C7: load_or_create returns a value, never an error: for a file that is
\* missing, unreadable or malformed, a Library with no games and exactly the
\* seven default categories, or Config::default(); for a file that loads, the
\* value the file was written from.
C7_LoadOrCreate ==
    /\ CalledOp("Library::load_or_create") =>
           LET ret == Unwrap(call).ret
               file == Unwrap(call).file
           IN /\ DOMAIN ret = {"games", "categories"}
              /\ file \in BadLibFiles =>
                     /\ ret.games = EmptyMap
                     /\ Cardinality(DOMAIN ret.categories) = 7
                     /\ {ret.categories[c].name : c \in DOMAIN ret.categories}
                            = DefaultCategoryNames
                     /\ \A c \in DOMAIN ret.categories : ret.categories[c].id = c
              /\ file \notin BadLibFiles =>
                     /\ Unwrap(before).lib # None
                     /\ ret = Unwrap(Unwrap(before).lib)
    /\ CalledOp("Config::load_or_create") =>
           LET ret == Unwrap(call).ret
               file == Unwrap(call).file
           IN /\ file \in BadCfgFiles => ret = Config_default
              /\ file \notin BadCfgFiles =>
                     /\ Unwrap(before).cfg # None
                     /\ ret = Unwrap(Unwrap(before).cfg)

\* C7 witness: load_or_create was called on a library file that does not
\* hold JSON, and the App holds the fresh default library
C7_Witness ==
    /\ CalledOp("Library::load_or_create")
    /\ Unwrap(call).file = FileWith(Garbage)
    /\ library.games = EmptyMap
    /\ Cardinality(DOMAIN library.categories) = 7

(***************************************************************************)
(* One message at a time: each message that reaches the library is handled *)
(* in an App with nothing in flight, and a launch is followed up to the    *)
(* save its completion message dispatches                                  *)
(***************************************************************************)
\* the games an App can hold under one id: added from the form or imported,
\* then possibly assigned to a category
MsgGames(id) ==
    {[g EXCEPT !.categories = cats] :
        g \in {[base EXCEPT !.favorite = favorite] :
                  base \in {Game_new(id, <<"P">>, <<"/", "a">>, "Manual", 0),
                            DetectedGame_into_game(Detected, "Steam", id, 0)},
                  favorite \in BOOLEAN},
        cats \in {<<>>, <<1>>, <<1, 2>>}}

\* the libraries of an App that has handed out the GameIds 1..n and the
\* CategoryIds up to c
MsgLibraries(n, c) ==
    {[games |-> games,
      categories |-> [id \in 1..c |->
                         IF id <= NumDefaultCategories
                         THEN default_categories(0)[id]
                         ELSE Category_new(id, "Horror")]] :
        games \in {f \in [1..n -> UNION {MsgGames(id) : id \in 1..n}] :
                      \A id \in 1..n : f[id] \in MsgGames(id)}}

InitMsg ==
    /\ nextGame \in 0..MaxGames
    /\ nextCat \in NumDefaultCategories..(NumDefaultCategories + MaxNewCats)
    /\ library \in MsgLibraries(nextGame, nextCat)
    /\ config = Config_default
    /\ current_view = "Library"
    /\ search_query = <<>>
    /\ selected_category = None
    /\ selected_game = None
    /\ sort_order = "NameAsc"
    /\ new_game_name = <<>>
    /\ new_game_path = <<>>
    /\ tasks = EmptyBag
    /\ inbox = <<>>
    /\ libFile = Missing
    /\ cfgFile = Missing
    /\ loaded = None
    /\ before = None
    /\ call = None

Quiescent == tasks = EmptyBag /\ inbox = <<>>

NextMsg ==
    \/ Quiescent /\ \E name \in GameNames, path \in ExePaths : AddGameNew(name, path)
    \/ Quiescent /\ \E detected \in ImportInputs : ImportCompleteOk(detected, "Steam")
    \/ Quiescent /\ ImportCompleteErr("NotInstalled")
    \/ Quiescent /\ \E id \in GameIdInputs : RemoveGame(id)
    \/ Quiescent /\ \E id \in GameIdInputs, update \in UpdateInputs : UpdateGame(id, update)
    \/ Quiescent /\ \E id \in GameIdInputs : ToggleFavorite(id)
    \/ Quiescent /\ \E name \in CategoryNames : AddCategory(name)
    \/ Quiescent /\ \E id \in CatInputs : RemoveCategory(id)
    \/ Quiescent /\ \E game_id \in GameIdInputs, category_id \in CatInputs :
                        AssignCategory(game_id, category_id)
    \/ Quiescent /\ \E game_id \in GameIdInputs, category_id \in CatInputs :
                        UnassignCategory(game_id, category_id)
    \/ Quiescent /\ \E id \in GameIdInputs : LaunchGame(id)
    \/ Quiescent /\ AddGamePressed
    \/ Quiescent /\ \E name \in NameInputs : NewGameNameChanged(name)
    \/ Quiescent /\ \E path \in PathInputs : NewGamePathChanged(path)
    \/ Quiescent /\ AddGameFromForm
    \/ \E task \in BagToSet(tasks), exists \in BOOLEAN, spawns \in BOOLEAN :
           RunLaunch(task, exists, spawns)
    \/ GameLaunched

SpecMsg == InitMsg /\ [][NextMsg]_vars

\* this step hands the runtime one more future, task
Dispatches(task) == tasks' = tasks (+) SetToBag({task})
LaunchStep == \E t \in BagToSet(tasks') : t.kind = "launch" /\ Dispatches(t)

\* C11: a step that changes the library dispatches a save of the library as
\* the step leaves it; the one exception is LaunchGame, whose stamp is saved
\* by the step that handles its GameLaunched completion.
C11_EveryChangeIsSaved ==
    [][/\ (library' # library /\ ~LaunchStep) => Dispatches(save_library(library'))
       /\ HandlesType("GameLaunched") =>
              /\ library' = library
              /\ Dispatches(save_library(library))]_vars

\* C11 witness: a game was launched, its completion has been handled, and the
\* save in flight holds the library with the game's new last_played
C11_Witness ==
    /\ tasks = SetToBag({save_library(library)})
    /\ inbox = <<>>
    /\ \E id \in DOMAIN library.games : library.games[id].last_played # None

(***************************************************************************)
(* The importers, each applied to a machine of its own: whether its        *)
(* locator found a path, what the file system and the GOG database hold,   *)
(* and whether the program was built with the "gog" feature.               *)
(***************************************************************************)
MaxRecords == 2   \* manifests (or database rows) of one source

EmptyFs == [p \in {} |-> p]
VdfLine(key, value) == <<Quote>> \o key \o <<Quote, " ", Quote>> \o value \o <<Quote>>
Digit(i) == <<ToString(i)>>

\* a Steam manifest number i in a library folder, and what makes it unusable
SteamConditions == {"ok", "unreadable", "no_name", "bad_line", "no_dir", "no_exe"}
ManifestName(i) == <<"a", "p", "p", "m", "a", "n", "i", "f", "e", "s", "t", "_">> \o Digit(i) \o <<".", "a", "c", "f">>
SteamGameName(i) == <<"T">> \o Digit(i)
SteamInstallDir(folder, i) == Join(Join(folder, <<"c", "o", "m", "m", "o", "n">>), <<"g">> \o Digit(i))
ManifestLines(i, cond) ==
    <<VdfLine(<<"a", "p", "p", "i", "d">>, Digit(i))>>
    \o (CASE cond = "no_name" -> <<>>
          [] cond = "bad_line" -> <<<<Quote>> \o <<"n", "a", "m", "e">> \o <<Quote>>>>
          [] OTHER -> <<VdfLine(<<"n", "a", "m", "e">>, SteamGameName(i))>>)
    \o <<VdfLine(<<"i", "n", "s", "t", "a", "l", "l", "d", "i", "r">>, <<"g">> \o Digit(i))>>
SteamRecord(folder, i, cond) ==
    LET dir == SteamInstallDir(folder, i)
    IN  (Join(folder, ManifestName(i))
            :> FileNode(VdfText(ManifestLines(i, cond)), cond # "unreadable", FALSE))
        @@ (CASE cond = "no_dir" -> EmptyFs
              [] cond = "no_exe" ->
                     (dir :> DirNode(TRUE, <<<<"d">>>>))
                     @@ (Join(dir, <<"d">>) :> FileNode(Garbage, TRUE, FALSE))
              [] OTHER ->
                     (dir :> DirNode(TRUE, <<<<"d">>, <<"l", "o", "n", "g">>, <<"x">>, <<"y">>>>))
                     @@ (Join(dir, <<"d">>) :> FileNode(Garbage, TRUE, FALSE))
                     @@ (Join(dir, <<"l", "o", "n", "g">>) :> FileNode(Garbage, TRUE, TRUE))
                     @@ (Join(dir, <<"x">>) :> FileNode(Garbage, TRUE, TRUE))
                     @@ (Join(dir, <<"y">>) :> FileNode(Garbage, TRUE, TRUE)))

RECURSIVE SteamRecords(_, _)
SteamRecords(folder, conds) ==
    IF conds = <<>> THEN EmptyFs
    ELSE SteamRecord(folder, Len(conds), conds[Len(conds)])
         @@ SteamRecords(folder, SubSeq(conds, 1, Len(conds) - 1))

SteamRoot == <<"/", "s">>
SteamApps == Join(SteamRoot, <<"s", "t", "e", "a", "m", "a", "p", "p", "s">>)
ExtraLibrary == <<"/", "x">>
ExtraApps == Join(ExtraLibrary, <<"s", "t", "e", "a", "m", "a", "p", "p", "s">>)
ExtraRecord == 9
VdfStates == {"absent", "unreadable", "extra"}
LibraryFoldersLines ==
    <<<<Quote>> \o <<"l", "i", "b", "r", "a", "r", "y", "f", "o", "l", "d", "e", "r", "s">> \o <<Quote>>,
      <<" ">> \o VdfLine(<<"p", "a", "t", "h">>, ExtraLibrary),
      VdfLine(<<"p", "a", "t", "h">>, ExtraLibrary),
      VdfLine(<<"p", "a", "t", "h">>, <<"/", "n">>)>>
SteamFs(listable, vdf, conds) ==
    (SteamApps :> DirNode(listable,
                          [i \in DOMAIN conds |-> ManifestName(i)]
                          \o (IF vdf = "absent" THEN <<>> ELSE <<<<"l", "i", "b", "r", "a", "r", "y", "f", "o", "l", "d", "e", "r", "s", ".", "v", "d", "f">>>>)
                          \o <<<<"c", "o", "m", "m", "o", "n">>>>))
    @@ (IF vdf = "absent" THEN EmptyFs
        ELSE Join(SteamApps, <<"l", "i", "b", "r", "a", "r", "y", "f", "o", "l", "d", "e", "r", "s", ".", "v", "d", "f">>)
                 :> FileNode(VdfText(LibraryFoldersLines), vdf # "unreadable", FALSE))
    @@ (Join(SteamApps, <<"c", "o", "m", "m", "o", "n">>) :> DirNode(TRUE, <<>>))
    @@ SteamRecords(SteamApps, conds)
    @@ (ExtraApps :> DirNode(TRUE, <<ManifestName(ExtraRecord)>>))
    @@ SteamRecord(ExtraApps, ExtraRecord, "ok")

\* an Epic manifest number i, and what makes it unusable
EpicConditions == {"ok", "unreadable", "not_json", "no_field", "not_str", "no_exe"}
EpicRoot == <<"/", "e">>
ItemName(i) == Digit(i) \o <<".", "i", "t", "e", "m">>
EpicInstall(i) == <<"/", "i">> \o Digit(i)
EpicManifest(i, cond) ==
    IF cond = "not_json" THEN Garbage
    ELSE IF cond = "no_field"
    THEN JsonText(JObj([DisplayName |-> JStr(<<"E">> \o Digit(i)),
                        InstallLocation |-> JStr(EpicInstall(i)),
                        AppName |-> JStr(<<"e">> \o Digit(i))]))
    ELSE JsonText(JObj([DisplayName |-> IF cond = "not_str" THEN JNum(i)
                                        ELSE JStr(<<"E">> \o Digit(i)),
                        InstallLocation |-> JStr(EpicInstall(i)),
                        AppName |-> JStr(<<"e">> \o Digit(i)),
                        LaunchExecutable |-> JStr(<<"x">>)]))
EpicRecord(i, cond) ==
    (Join(EpicRoot, ItemName(i)) :> FileNode(EpicManifest(i, cond), cond # "unreadable", FALSE))
    @@ (EpicInstall(i) :> DirNode(TRUE, IF cond = "no_exe" THEN <<>> ELSE <<<<"x">>>>))
    @@ (IF cond = "no_exe" THEN EmptyFs
        ELSE Join(EpicInstall(i), <<"x">>) :> FileNode(Garbage, TRUE, TRUE))

RECURSIVE EpicRecords(_)
EpicRecords(conds) ==
    IF conds = <<>> THEN EmptyFs
    ELSE EpicRecord(Len(conds), conds[Len(conds)])
         @@ EpicRecords(SubSeq(conds, 1, Len(conds) - 1))

EpicFs(listable, conds) ==
    (EpicRoot :> DirNode(listable, [i \in DOMAIN conds |-> ItemName(i)] \o <<<<"n", "o", "t", "e", "s", ".", "t", "x", "t">>>>))
    @@ (Join(EpicRoot, <<"n", "o", "t", "e", "s", ".", "t", "x", "t">>) :> FileNode(Garbage, TRUE, FALSE))
    @@ EpicRecords(conds)

\* a GOG database row number i, and what makes it unusable
GogConditions == {"ok", "row_error", "no_dir", "no_info", "no_name", "no_exe"}
GogDatabase == <<"/", "d", "b">>
GogInstall(i) == <<"/", "o">> \o Digit(i)
GogInfoName(i) == <<"g", "o", "g", "g", "a", "m", "e", "-">> \o Digit(i) \o <<".", "i", "n", "f", "o">>
GogInfo(i, cond) ==
    IF cond = "no_name"
    THEN JsonText(JObj([playTasks |-> JArr(<<JObj([path |-> JStr(<<"x">>)])>>)]))
    ELSE JsonText(JObj([name |-> JStr(<<"O">> \o Digit(i)),
                        playTasks |-> JArr(<<JObj([path |-> JStr(<<"x">>)])>>)]))
GogRow(i, cond) ==
    IF cond = "row_error" THEN Err("InvalidColumnType") ELSE Ok(<<i, GogInstall(i)>>)
GogRecord(i, cond) ==
    IF cond \in {"no_dir", "row_error"} THEN EmptyFs
    ELSE (GogInstall(i) :> DirNode(TRUE, (IF cond = "no_info" THEN <<>> ELSE <<GogInfoName(i)>>)
                                         \o (IF cond = "no_exe" THEN <<>> ELSE <<<<"x">>>>)))
         @@ (IF cond = "no_info" THEN EmptyFs
             ELSE Join(GogInstall(i), GogInfoName(i)) :> FileNode(GogInfo(i, cond), TRUE, FALSE))
         @@ (IF cond = "no_exe" THEN EmptyFs
             ELSE Join(GogInstall(i), <<"x">>) :> FileNode(Garbage, TRUE, TRUE))

RECURSIVE GogRecords(_)
GogRecords(conds) ==
    IF conds = <<>> THEN EmptyFs
    ELSE GogRecord(Len(conds), conds[Len(conds)])
         @@ GogRecords(SubSeq(conds, 1, Len(conds) - 1))

RecordLists(conditions) == UNION {[1..n -> conditions] : n \in 0..MaxRecords}

Machine(importer, located, listable, vdf, records, db, gog_feature, fs) ==
    [importer |-> importer, located |-> located, listable |-> listable, vdf |-> vdf,
     records |-> records, db |-> db, gog_feature |-> gog_feature, fs |-> fs]

SteamMachines ==
    {Machine("Steam", located, listable, vdf, records, DbOpenFails, FALSE,
             SteamFs(listable, vdf, records)) :
        located \in {None, Some(SteamRoot)}, listable \in BOOLEAN, vdf \in VdfStates,
        records \in RecordLists(SteamConditions)}
EpicMachines ==
    {Machine("Epic", located, listable, "absent", records, DbOpenFails, FALSE,
             EpicFs(listable, records)) :
        located \in {None, Some(EpicRoot)}, listable \in BOOLEAN,
        records \in RecordLists(EpicConditions)}
GogMachines ==
    {Machine("GOG", located, TRUE, "absent", records,
             IF opens = "rows" THEN DbRows([i \in DOMAIN records |-> GogRow(i, records[i])])
             ELSE <<opens>>,
             gog_feature, GogRecords(records)) :
        located \in {None, Some(GogDatabase)}, gog_feature \in BOOLEAN,
        opens \in {"open_fails", "prepare_fails", "rows"},
        records \in RecordLists(GogConditions)}

InitImport ==
    /\ library = App_default_library
    /\ config = Config_default
    /\ current_view = "Library"
    /\ search_query = <<>>
    /\ selected_category = None
    /\ selected_game = None
    /\ sort_order = "NameAsc"
    /\ new_game_name = <<>>
    /\ new_game_path = <<>>
    /\ tasks = EmptyBag
    /\ inbox = <<>>
    /\ libFile = Missing
    /\ cfgFile = Missing
    /\ nextGame = 0
    /\ nextCat = NumDefaultCategories
    /\ loaded = None
    /\ before \in SteamMachines \cup EpicMachines \cup GogMachines
    /\ call = None

importFrame == <<appVars, tasks, inbox, libFile, cfgFile, nextGame, nextCat, loaded, before>>

Scanned(available, result) ==
    call' = Some([op |-> "scan_games", importer |-> before.importer,
                  is_available |-> available, ret |-> result])

SteamScan ==
    /\ before.importer = "Steam"
    /\ Scanned(Steam_is_available(before.located),
               Steam_scan_games(before.located, before.fs))
    /\ UNCHANGED importFrame

EpicScan ==
    /\ before.importer = "Epic"
    /\ Scanned(Epic_is_available(before.located),
               Epic_scan_games(before.located, before.fs))
    /\ UNCHANGED importFrame

GogScan ==
    /\ before.importer = "GOG"
    /\ Scanned(GOG_is_available(before.located),
               GOG_scan_games(before.located, before.db, before.fs, before.gog_feature))
    /\ UNCHANGED importFrame

NextImport == SteamScan \/ EpicScan \/ GogScan
SpecImport == InitImport /\ [][NextImport]_vars

\* the scan has been made
HasScanned == call # None
ScanResult == Unwrap(call).ret

\* C12: for each importer, a scan made while is_available() is false returns
\* Err(NotInstalled), and never Ok with an empty list.
C12_UnavailableIsNotInstalled ==
    (HasScanned /\ ~Unwrap(call).is_available) => ScanResult = Err("NotInstalled")
C12_Witness ==
    /\ HasScanned
    /\ before.importer = "Epic"
    /\ before.located = None
    /\ before.listable
    /\ ScanResult = Err("NotInstalled")

\* C13 as stated: for each importer, scan_games returns Err(NotInstalled) if and
\* only if is_available() is false.
C13_NotInstalledIffUnavailable ==
    HasScanned => (ScanResult = Err("NotInstalled") <=> ~Unwrap(call).is_available)
\* C13 amended: for Steam, for Epic, and for GOG built with the "gog" feature,
\* scan_games returns Err(NotInstalled) if and only if is_available() is false;
\* GOG built without the feature returns Err(NotInstalled) whether or not the
\* database was located.
C13_NotInstalledIffUnavailableOrNoFeature ==
    HasScanned =>
        IF before.importer = "GOG" /\ ~before.gog_feature
        THEN ScanResult = Err("NotInstalled")
        ELSE ScanResult = Err("NotInstalled") <=> ~Unwrap(call).is_available
C13_Witness ==
    /\ HasScanned
    /\ before.importer = "GOG"
    /\ before.located # None
    /\ before.gog_feature
    /\ before.db = DbOpenFails
    /\ ScanResult = Err("DatabaseError")

\* the source_id of record i of the machine's source
RecordId(i) == IF before.importer = "Epic" THEN <<"e">> \o Digit(i) ELSE Digit(i)
Scanned_ids == {Val(ScanResult)[k].source_id : k \in DOMAIN Val(ScanResult)}
\* the scan got as far as the records: the source is located, its root can be
\* listed and (Steam) libraryfolders.vdf is absent or readable
RecordsVisited ==
    /\ HasScanned
    /\ before.importer \in {"Steam", "Epic"}
    /\ before.located # None
    /\ before.listable
    /\ before.vdf # "unreadable"

\* C14: in a Steam or Epic scan, a record that cannot be turned into a
\* DetectedGame is dropped alone: the scan returns Ok, and its result holds a
\* game for every well-formed record and none for the others.
C14_BadRecordDroppedAlone ==
    RecordsVisited =>
        /\ IsOk(ScanResult)
        /\ \A i \in DOMAIN before.records :
               before.records[i] = "ok" <=> RecordId(i) \in Scanned_ids
C14_Witness ==
    /\ RecordsVisited
    /\ \E i, j \in DOMAIN before.records :
           /\ before.records[i] = "ok"
           /\ before.records[j] \notin {"ok"}
           /\ RecordId(i) \in Scanned_ids
           /\ RecordId(j) \notin Scanned_ids

\* the positions, in the listing of dir, of its executable files
Executables(fs, dir) ==
    {k \in DOMAIN fs[dir].entries :
        LET p == Join(dir, fs[dir].entries[k])
        IN  p \in DOMAIN fs /\ fs[p].kind = "file" /\ fs[p].executable}
\* the games of the scan result that carry the source_id id
GamesOf(id) == {k \in DOMAIN Val(ScanResult) : Val(ScanResult)[k].source_id = id}

\* C25: a Steam manifest of library folder L that declares appid A, name N and
\* installdir D is parsed into one DetectedGame with source_id A, name N,
\* install_path L/common/D and, as executable_path, the executable file of
\* that directory with the shortest name, the first of the listing among
\* those of equal length; it gives no game when L/common/D does not exist or
\* holds no executable file.
C25_SteamManifestParsed ==
    (RecordsVisited /\ before.importer = "Steam") =>
        \A i \in DOMAIN before.records :
            before.records[i] \in {"ok", "no_dir", "no_exe"} =>
                LET dir == Join(Join(SteamApps, <<"c", "o", "m", "m", "o", "n">>), <<"g">> \o Digit(i))
                    games == Val(ScanResult)
                IN  IF dir \in DOMAIN before.fs /\ Executables(before.fs, dir) # {}
                    THEN \E k \in DOMAIN games, e \in Executables(before.fs, dir) :
                            /\ GamesOf(Digit(i)) = {k}
                            /\ games[k].name = SteamGameName(i)
                            /\ games[k].install_path = dir
                            /\ games[k].executable_path = Join(dir, before.fs[dir].entries[e])
                            /\ \A o \in Executables(before.fs, dir) \ {e} :
                                   LET shortest == Len(before.fs[dir].entries[e])
                                       other == Len(before.fs[dir].entries[o])
                                   IN  shortest < other \/ (shortest = other /\ e < o)
                    ELSE GamesOf(Digit(i)) = {}
C25_Witness ==
    /\ RecordsVisited
    /\ before.importer = "Steam"
    /\ \E i, j \in DOMAIN before.records :
           /\ before.records[i] = "ok"
           /\ before.records[j] = "no_exe"
           /\ \E k \in GamesOf(Digit(i)) :
                  Val(ScanResult)[k].executable_path
                      = Join(Join(Join(SteamApps, <<"c", "o", "m", "m", "o", "n">>), <<"g">> \o Digit(i)), <<"x">>)
           /\ GamesOf(Digit(j)) = {}

\* C15: when a source's root is located but cannot be listed, scan_games
\* returns an ImportError rather than Ok.
C15_UnlistableRootIsError ==
    (/\ HasScanned
     /\ before.importer \in {"Steam", "Epic"}
     /\ before.located # None
     /\ ~before.listable) => ~IsOk(ScanResult)

(***************************************************************************)
(* Imports of several sources: the ImportComplete messages of the scans,   *)
(* delivered one after the other.                                          *)
(***************************************************************************)
MaxImports == 2   \* ImportComplete messages of one run

\* what a source's import ended with: an ImportError, or the source whose
\* scan found one game
ImportOutcomes == {"NotInstalled", "IoError", "Steam", "GOG"}
ImportMessage(outcome, id) ==
    IF outcome \in GameSources
    THEN Msg("ImportComplete", Ok(ImportedGames(<<Detected>>, outcome, id - 1, 0)))
    ELSE Msg("ImportComplete", Err(outcome))
ImportStreams(base) ==
    {[i \in DOMAIN outcomes |-> ImportMessage(outcomes[i], base + i)] :
        outcomes \in UNION {[1..n -> ImportOutcomes] : n \in 1..MaxImports}}

InitImports ==
    /\ nextCat \in NumDefaultCategories..(NumDefaultCategories + MaxNewCats)
    /\ \E base \in 0..MaxGames :
           /\ library \in MsgLibraries(base, nextCat)
           /\ inbox \in ImportStreams(base)
           /\ nextGame = base + Len(inbox)
    /\ config = Config_default
    /\ current_view = "Library"
    /\ search_query = <<>>
    /\ selected_category = None
    /\ selected_game = None
    /\ sort_order = "NameAsc"
    /\ new_game_name = <<>>
    /\ new_game_path = <<>>
    /\ tasks = EmptyBag
    /\ libFile = Missing
    /\ cfgFile = Missing
    /\ loaded = None
    /\ before = inbox
    /\ call = None

NextImports == ImportCompleteDelivered
SpecImports == InitImports /\ [][NextImports]_vars

\* C16: handling ImportComplete(Err) leaves the library unchanged and
\* dispatches no save; handling ImportComplete(Ok(games)), also after a failed
\* import of another source, adds every one of the games and dispatches the save.
C16_FailedImportIsIndependent ==
    [][HandlesType("ImportComplete") =>
           LET result == Head(inbox)[2]
           IN  IF IsOk(result)
               THEN /\ \A i \in DOMAIN Val(result) :
                          /\ Val(result)[i].id \in DOMAIN library'.games
                          /\ library'.games[Val(result)[i].id] = Val(result)[i]
                    /\ Dispatches(save_library(library'))
               ELSE library' = library /\ tasks' = tasks]_vars
C16_Witness ==
    /\ Len(before) = 2
    /\ ~IsOk(before[1][2])
    /\ IsOk(before[2][2])
    /\ inbox = <<>>
    /\ \A i \in DOMAIN Val(before[2][2]) :
           Val(before[2][2])[i].id \in DOMAIN library.games
    /\ tasks = SetToBag({save_library(library)})

\* C18: in every reachable state every game of the library has a non-empty
\* executable_path, also after UpdateGame carrying an executable_path and
\* after games were added from the form or from an import.
C18_ExecutablePathNeverEmpty ==
    \A id \in DOMAIN library.games : library.games[id].executable_path # <<>>

(***************************************************************************)
(* The constructors and operations of Game (src/data/game.rs) applied to   *)
(* bounded inputs; call holds the game last made or changed, until         *)
(* Message::AddGame moves it into the library.                             *)
(***************************************************************************)
gameFrame == <<config, uiVars, formVars, inbox, envVars, nextCat, loaded, before>>

\* the game of call has not been moved into a message
Owned == tasks = EmptyBag

Made(op, game) ==
    /\ Owned
    /\ nextGame < MaxGames
    /\ nextGame' = nextGame + 1
    /\ call' = Some([op |-> op, game |-> game, panicked |-> FALSE])
    /\ UNCHANGED <<library, tasks, gameFrame>>

NewGame ==
    \E name \in GameNames, path \in ExePaths, source \in GameSources, now \in Times :
        Made("Game::new", Game_new(nextGame + 1, name, path, source, now))

FromImport ==
    \E name \in GameNames, path \in ExePaths, source \in GameSources, now \in Times :
        Made("Game::from_import",
             Game_from_import(nextGame + 1, name, path, <<"/">>, source, "440", now))

IntoGame ==
    \E source \in GameSources, now \in Times :
        Made("DetectedGame::into_game",
             DetectedGame_into_game(Detected, source, nextGame + 1, now))

CreateManualGame ==
    \E name \in GameNames, path \in ExePaths, now \in Times :
        Made("create_manual_game", create_manual_game(nextGame + 1, name, path, now))

AddPlaytime ==
    /\ call # None
    /\ Owned
    /\ \E minutes \in 0..U64Max, overflow_checks \in BOOLEAN :
           LET r == Game_add_playtime(Unwrap(call).game, minutes, overflow_checks)
           IN  call' = Some([op |-> "Game::add_playtime", game |-> r.game,
                             panicked |-> r.panicked])
    /\ UNCHANGED <<library, tasks, nextGame, gameFrame>>

MarkPlayed ==
    /\ call # None
    /\ Owned
    /\ \E now \in Times :
           call' = Some([op |-> "Game::mark_played",
                         game |-> Game_mark_played(Unwrap(call).game, now),
                         panicked |-> FALSE])
    /\ UNCHANGED <<library, tasks, nextGame, gameFrame>>

\* Message::AddGame carrying the game
HoldGame ==
    /\ call # None
    /\ ~Unwrap(call).panicked
    /\ Owned
    /\ AddGame(Unwrap(call).game)
    /\ UNCHANGED nextGame

InitGame ==
    /\ library = App_default_library
    /\ config = Config_default
    /\ current_view \in {"Library", "AddGame"}
    /\ search_query = <<>>
    /\ selected_category = None
    /\ selected_game = None
    /\ sort_order = "NameAsc"
    /\ new_game_name = <<>>
    /\ new_game_path = <<>>
    /\ tasks = EmptyBag
    /\ inbox = <<>>
    /\ libFile = Missing
    /\ cfgFile = Missing
    /\ nextGame = 0
    /\ nextCat = NumDefaultCategories
    /\ loaded = None
    /\ before = None
    /\ call = None

NextGame ==
    \/ NewGame
    \/ FromImport
    \/ IntoGame
    \/ CreateManualGame
    \/ AddPlaytime
    \/ MarkPlayed
    \/ HoldGame
SpecGame == InitGame /\ [][NextGame]_vars

SourceIdMatches(g) == g.source_id # None <=> g.source # "Manual"

\* C17: every game a constructor or conversion produces, and every game the
\* application holds, has source_id Some if and only if its source is not Manual.
C17_SourceIdIffNotManual ==
    /\ call # None => SourceIdMatches(Unwrap(call).game)
    /\ \A id \in DOMAIN library.games : SourceIdMatches(library.games[id])

\* C19: a game's playtime_minutes never decreases: after add_playtime(m), for
\* any m, it is at least what it was, and no other operation lowers it.
C19_PlaytimeNeverDecreases ==
    [][(/\ call # None
        /\ call' # None
        /\ Unwrap(call').game.id = Unwrap(call).game.id)
       => Unwrap(call').game.playtime_minutes >= Unwrap(call).game.playtime_minutes]_vars

(***************************************************************************)
(* Library::search_games applied to bounded libraries and queries.         *)
(***************************************************************************)
SearchNames == {<<"P", "o", "r", "t", "a", "l", " ", "2">>, <<"T", "o", "p">>, <<"p", "o", "r">>}
SearchQueries == {<<"p", "o", "r", "t", "a", "l">>, <<"P", "O", "R", "T", "A", "L">>, <<"P", "o", "r">>, <<"x", "y", "z">>, <<>>, <<"o">>, <<"t", "a", "l", " ", "2">>, <<"P", "t">>}
\* a game whose path, and nothing else, spells "portal" when its name does not
SearchGames(id) ==
    {Game_new(id, name, <<"/", "p", "o", "r", "t", "a", "l">>, "Manual", 0) : name \in SearchNames}
SearchLibraries ==
    UNION {{[Library_new(0) EXCEPT !.games = games] :
               games \in {f \in [ids -> UNION {SearchGames(id) : id \in ids}] :
                             \A id \in ids : f[id] \in SearchGames(id)}} :
           ids \in SUBSET StoreGameIds}

InitSearch ==
    /\ library \in SearchLibraries
    /\ config = Config_default
    /\ current_view = "Library"
    /\ search_query = <<>>
    /\ selected_category = None
    /\ selected_game = None
    /\ sort_order = "NameAsc"
    /\ new_game_name = <<>>
    /\ new_game_path = <<>>
    /\ tasks = EmptyBag
    /\ inbox = <<>>
    /\ libFile = Missing
    /\ cfgFile = Missing
    /\ nextGame = MaxStoreGames
    /\ nextCat = NumDefaultCategories
    /\ loaded = None
    /\ before = None
    /\ call = None

SearchGamesCall(query, ord) ==
    /\ call' = Some([op |-> "search_games", query |-> query,
                     ret |-> Library_search_games(library, query, ord)])
    /\ UNCHANGED <<appVars, tasks, inbox, envVars, idVars, loaded, before>>

NextSearch ==
    \E query \in SearchQueries, ord \in Orders(DOMAIN library.games) :
        SearchGamesCall(query, ord)
SpecSearch == InitSearch /\ [][NextSearch]_vars

\* the upper-case letters of the inputs with their lower-case forms
CasePairs ==
    {<<"A", "a">>, <<"L", "l">>, <<"O", "o">>, <<"P", "p">>, <<"R", "r">>, <<"T", "t">>}
SameIgnoringCase(a, b) ==
    \/ a = b
    \/ <<a, b>> \in CasePairs
    \/ <<b, a>> \in CasePairs
\* query occurs in name at position i, whatever the case of the letters
OccursAt(name, query, i) ==
    /\ i + Len(query) - 1 <= Len(name)
    /\ \A k \in DOMAIN query : SameIgnoringCase(name[i + k - 1], query[k])
NameMatches(name, query) == \E i \in 1..(Len(name) + 1) : OccursAt(name, query, i)

\* C20: search_games(q) returns exactly the games whose name contains q, case
\* ignored, and looks at the name only: "Portal 2" is returned for "portal",
\* "PORTAL" and "Por", and a query matching no name returns an empty list.
C20_SearchGames ==
    CalledOp("search_games") =>
        LET ret == Unwrap(call).ret
            query == Unwrap(call).query
        IN  /\ Len(ret) = Cardinality(IdsOf(ret))
            /\ \A i \in DOMAIN ret : ret[i] = library.games[ret[i].id]
            /\ IdsOf(ret) = {id \in DOMAIN library.games :
                                NameMatches(library.games[id].name, query)}
            /\ query \in {<<"p", "o", "r", "t", "a", "l">>, <<"P", "O", "R", "T", "A", "L">>, <<"P", "o", "r">>} =>
                   \A id \in DOMAIN library.games :
                       library.games[id].name = <<"P", "o", "r", "t", "a", "l", " ", "2">> => id \in IdsOf(ret)
            /\ query = <<"x", "y", "z">> => ret = <<>>
C20_Witness ==
    /\ CalledOp("search_games")
    /\ Unwrap(call).query = <<"P", "O", "R", "T", "A", "L">>
    /\ \E id \in DOMAIN library.games :
           library.games[id].name = <<"P", "o", "r", "t", "a", "l", " ", "2">> /\ id \in IdsOf(Unwrap(call).ret)
    /\ \E id \in DOMAIN library.games :
           library.games[id].name = <<"T", "o", "p">> /\ id \notin IdsOf(Unwrap(call).ret)

(***************************************************************************)
(* Library::games_sorted and App::get_filtered_games applied to bounded    *)
(* libraries, under every sort order and HashMap iteration order.          *)
(***************************************************************************)
SortNames == {<<"P", "o">>, <<"p", "o">>, <<"T", "o", "p">>}
\* when a game was last played and for how many minutes
SortHistories == {<<None, 0>>, <<Some(0), 1>>, <<Some(1), 0>>}
SortGames(id) ==
    {[Game_new(id, name, <<"/", "a">>, "Manual", history[2]) EXCEPT
         !.last_played = history[1], !.playtime_minutes = history[2]] :
        name \in SortNames, history \in SortHistories}
SortLibraries ==
    UNION {{[Library_new(0) EXCEPT !.games = games] :
               games \in {f \in [ids -> UNION {SortGames(id) : id \in ids}] :
                             \A id \in ids : f[id] \in SortGames(id)}} :
           ids \in SUBSET StoreGameIds}

InitSort ==
    /\ library \in SortLibraries
    /\ config = Config_default
    /\ current_view = "Library"
    /\ search_query = <<>>
    /\ selected_category = None
    /\ selected_game = None
    /\ sort_order \in SortOrders
    /\ new_game_name = <<>>
    /\ new_game_path = <<>>
    /\ tasks = EmptyBag
    /\ inbox = <<>>
    /\ libFile = Missing
    /\ cfgFile = Missing
    /\ nextGame = MaxStoreGames
    /\ nextCat = NumDefaultCategories
    /\ loaded = None
    /\ before = None
    /\ call = None

\* games_sorted under each order, all_games, and the list the view shows
GamesSortedCall(ord, view_ord) ==
    /\ call = None
    /\ call' = Some([op |-> "games_sorted",
                     sorted |-> [o \in SortOrders |-> Library_games_sorted(library, o, ord)],
                     all |-> Library_all_games(library, ord),
                     filtered |-> get_filtered_games(view_ord)])
    /\ UNCHANGED <<appVars, tasks, inbox, envVars, idVars, loaded, before>>

NextSort ==
    \E ord \in Orders(DOMAIN library.games), view_ord \in Orders(DOMAIN library.games) :
        GamesSortedCall(ord, view_ord)
SpecSort == InitSort /\ [][NextSort]_vars

Reverse(s) == [i \in DOMAIN s |-> s[Len(s) + 1 - i]]
EqualIgnoringCase(a, b) ==
    Len(a) = Len(b) /\ \A k \in DOMAIN a : SameIgnoringCase(a[k], b[k])
NamesDifferIgnoringCase(lib) ==
    \A g, h \in DOMAIN lib.games :
        g # h => ~EqualIgnoringCase(lib.games[g].name, lib.games[h].name)
\* s lists every game of the library once
PermutationOfGames(s, lib) ==
    /\ Len(s) = Cardinality(DOMAIN lib.games)
    /\ IdsOf(s) = DOMAIN lib.games
    /\ \A i \in DOMAIN s : s[i] = lib.games[s[i].id]

\* C21: in a library where no two names are equal ignoring case,
\* games_sorted(NameDesc) is the reverse of games_sorted(NameAsc), and both
\* are permutations of all_games().
C21_NameDescReversesNameAsc ==
    (CalledOp("games_sorted") /\ NamesDifferIgnoringCase(library)) =>
        LET sorted == Unwrap(call).sorted
        IN  /\ sorted.NameDesc = Reverse(sorted.NameAsc)
            /\ PermutationOfGames(sorted.NameAsc, library)
            /\ PermutationOfGames(sorted.NameDesc, library)
            /\ PermutationOfGames(Unwrap(call).all, library)
C21_Witness ==
    /\ CalledOp("games_sorted")
    /\ NamesDifferIgnoringCase(library)
    /\ Cardinality(DOMAIN library.games) = 2
    /\ Unwrap(call).sorted.NameAsc # Unwrap(call).all
    /\ Unwrap(call).sorted.NameDesc = Unwrap(call).all

\* s puts every game with a last_played before every game without one, and
\* a later last_played before an earlier one
LastPlayedDescending(s) ==
    \A i, j \in DOMAIN s :
        i < j =>
            /\ s[i].last_played = None => s[j].last_played = None
            /\ (s[i].last_played # None /\ s[j].last_played # None) =>
                   Unwrap(s[i].last_played) >= Unwrap(s[j].last_played)

\* C22: games_sorted(LastPlayed), and the view's list under that order, put
\* the games by last_played descending with an absent last_played as the
\* oldest value.
C22_LastPlayedAbsentIsOldest ==
    CalledOp("games_sorted") =>
        /\ LastPlayedDescending(Unwrap(call).sorted.LastPlayed)
        /\ PermutationOfGames(Unwrap(call).sorted.LastPlayed, library)
        /\ sort_order = "LastPlayed" => LastPlayedDescending(Unwrap(call).filtered)
C22_Witness ==
    /\ CalledOp("games_sorted")
    /\ Cardinality(DOMAIN library.games) = 2
    /\ Unwrap(call).all[1].last_played = None
    /\ Unwrap(call).all[2].last_played = Some(0)
    /\ Unwrap(call).sorted.LastPlayed[1].last_played = Some(0)
    /\ Unwrap(call).sorted.LastPlayed[2].last_played = None

\* the key a sort order compares
SortKey(order, g) ==
    CASE order \in {"NameAsc", "NameDesc"} -> to_lowercase(g.name)
      [] order = "LastPlayed" -> g.last_played
      [] order = "RecentlyAdded" -> <<g.added_date>>
      [] order = "MostPlayed" -> <<g.playtime_minutes>>

MaxArgLen == 4   \* characters of an argument string

ArgChars == {"a", " ", "\t", Quote, "'"}
ScenarioArgs == <<"-", "p", "a", "t", "h", " ">> \o <<Quote>> \o <<"C", ":">> \o <<"\\">> \o <<"P", "r", "o", "g", "r", "a", "m", " ", "F", "i", "l", "e", "s">> \o <<"\\">>
                \o <<"G", "a", "m", "e">> \o <<Quote>> \o <<" ", "-", "w", "i", "n", "d", "o", "w", "e", "d">>
ScenarioTokens ==
    <<<<"-", "p", "a", "t", "h">>, <<"C", ":">> \o <<"\\">> \o <<"P", "r", "o", "g", "r", "a", "m", " ", "F", "i", "l", "e", "s">> \o <<"\\">> \o <<"G", "a", "m", "e">>, <<"-", "w", "i", "n", "d", "o", "w", "e", "d">>>>
ArgStrings == UNION {[1..n -> ArgChars] : n \in 0..MaxArgLen} \cup {ScenarioArgs}
LaunchPaths == {<<"/", "g", "/", "x">>, <<"x">>}

InitLaunch ==
    /\ library = App_default_library
    /\ config = Config_default
    /\ current_view = "Library"
    /\ search_query = <<>>
    /\ selected_category = None
    /\ selected_game = None
    /\ sort_order = "NameAsc"
    /\ new_game_name = <<>>
    /\ new_game_path = <<>>
    /\ tasks = EmptyBag
    /\ inbox = <<>>
    /\ libFile = Missing
    /\ cfgFile = Missing
    /\ nextGame = 0
    /\ nextCat = NumDefaultCategories
    /\ loaded = None
    /\ before = None
    /\ call = None

launchFrame == <<appVars, tasks, inbox, envVars, idVars, loaded, before>>

ParseArgsCall ==
    /\ call = None
    /\ \E args_str \in ArgStrings :
           call' = Some([op |-> "parse_args", args_str |-> args_str,
                         ret |-> parse_args(args_str)])
    /\ UNCHANGED launchFrame

LaunchGameCall ==
    /\ call = None
    /\ \E executable_path \in LaunchPaths,
          launch_args \in {None, Some(<<"a", " ", "a">>), Some(ScenarioArgs)},
          exists \in BOOLEAN, spawns \in BOOLEAN :
           call' = Some([op |-> "launch_game", executable_path |-> executable_path,
                         launch_args |-> launch_args, exists |-> exists, spawns |-> spawns,
                         command |-> launch_game_command(executable_path, launch_args, exists),
                         ret |-> launch_game(exists, spawns)])
    /\ UNCHANGED launchFrame

NextLaunch == ParseArgsCall \/ LaunchGameCall
SpecLaunch == InitLaunch /\ [][NextLaunch]_vars

QuoteFree(s) == \A i \in DOMAIN s : s[i] \notin {Quote, "'"}
NonEmpty(pieces) == SelectSeq(pieces, LAMBDA piece : piece # <<>>)
\* the pieces of s between the occurrences of the characters of blanks
RECURSIVE Pieces(_, _)
Pieces(s, blanks) ==
    IF \E k \in 1..Len(s) : s[k] \in blanks
    THEN LET cut == CHOOSE k \in 1..Len(s) :
                        s[k] \in blanks /\ \A j \in 1..(k - 1) : s[j] \notin blanks
         IN  <<SubSeq(s, 1, cut - 1)>> \o Pieces(SubSeq(s, cut + 1, Len(s)), blanks)
    ELSE <<s>>
FirstIndex(s, chars) ==
    CHOOSE k \in 1..Len(s) : s[k] \in chars /\ \A j \in 1..(k - 1) : s[j] \notin chars
\* s holds at most one quoted span: nothing is quoted after its end
AtMostOneSpan(s) ==
    \/ QuoteFree(s)
    \/ LET open == FirstIndex(s, {Quote, "'"})
           rest == SubSeq(s, open + 1, Len(s))
       IN  s[open] \in Range(rest) =>
               QuoteFree(SubSeq(rest, FirstIndex(rest, {s[open]}) + 1, Len(rest)))
\* the tokens of such a string when the characters of blanks separate tokens:
\* the pieces between the blanks, the quoted span joined, without its quote
\* characters, to the pieces it touches
ExpectedTokens(s, blanks) ==
    IF QuoteFree(s) THEN NonEmpty(Pieces(s, blanks))
    ELSE LET open == FirstIndex(s, {Quote, "'"})
             rest == SubSeq(s, open + 1, Len(s))
             close == IF s[open] \in Range(rest) THEN FirstIndex(rest, {s[open]})
                      ELSE Len(rest) + 1
             span == SubSeq(rest, 1, close - 1)
             pre == Pieces(SubSeq(s, 1, open - 1), blanks)
             post == Pieces(SubSeq(rest, close + 1, Len(rest)), blanks)
         IN  NonEmpty(SubSeq(pre, 1, Len(pre) - 1)
                      \o <<pre[Len(pre)] \o span \o Head(post)>>
                      \o Tail(post))
ParseArgsAgrees(blanks) ==
    CalledOp("parse_args") =>
        LET args_str == Unwrap(call).args_str
            ret == Unwrap(call).ret
        IN  /\ AtMostOneSpan(args_str) => ret = ExpectedTokens(args_str, blanks)
            /\ args_str = <<>> => ret = <<>>
            /\ args_str = ScenarioArgs => ret = ScenarioTokens

C24_LaunchErrorsAreDistinct ==
    CalledOp("launch_game") =>
        LET c == Unwrap(call)
        IN  /\ ~c.exists <=> c.ret = Err("ExecutableNotFound")
            /\ ~c.exists => c.command = None
            /\ (c.exists /\ ~c.spawns) <=> c.ret = Err("SpawnFailed")
            /\ (c.exists /\ c.spawns) <=> IsOk(c.ret)
            /\ c.exists => c.command # None /\ Unwrap(c.command).program = c.executable_path
C24_Witness ==
    /\ CalledOp("launch_game")
    /\ Unwrap(call).exists
    /\ ~Unwrap(call).spawns
    /\ Unwrap(call).ret = Err("SpawnFailed")
    /\ Unwrap(call).command # None

(***************************************************************************)
(* DetectedGame::into_game applied again and again, also to a game that    *)
(* was converted before and to one the library holds; before is the list   *)
(* of the games converted earlier.                                         *)
(***************************************************************************)
MaxConversions == 2   \* conversions in one behaviour

OtherDetected ==
    [name |-> <<"P">>, source_id |-> "620", executable_path |-> <<"/", "p", "/", "x">>,
     install_path |-> <<"/", "p">>, icon_path |-> None]
DetectedGames == {Detected, OtherDetected}
\* the library before the conversions: empty, or holding Detected from Steam
ConvertLibraries ==
    {App_default_library,
     Library_add_game(App_default_library,
                      DetectedGame_into_game(Detected, "Steam", 1, 0))}

InitConvert ==
    /\ library \in ConvertLibraries
    /\ config = Config_default
    /\ current_view = "Library"
    /\ search_query = <<>>
    /\ selected_category = None
    /\ selected_game = None
    /\ sort_order = "NameAsc"
    /\ new_game_name = <<>>
    /\ new_game_path = <<>>
    /\ tasks = EmptyBag
    /\ inbox = <<>>
    /\ libFile = Missing
    /\ cfgFile = Missing
    /\ nextGame = Cardinality(DOMAIN library.games)
    /\ nextCat = NumDefaultCategories
    /\ loaded = None
    /\ before = <<>>
    /\ call = None

IntoGameCall ==
    /\ Len(before) + (IF call = None THEN 0 ELSE 1) < MaxConversions
    /\ \E d \in DetectedGames, source \in GameSources, now \in Times :
           call' = Some([op |-> "DetectedGame::into_game", detected |-> d, source |-> source,
                         game |-> DetectedGame_into_game(d, source, nextGame + 1, now)])
    /\ nextGame' = nextGame + 1
    /\ before' = IF call = None THEN before ELSE Append(before, Unwrap(call).game)
    /\ UNCHANGED <<appVars, tasks, inbox, envVars, nextCat, loaded>>

NextConvert == IntoGameCall
SpecConvert == InitConvert /\ [][NextConvert]_vars

\* C26: into_game(source) gives a Game with an id that no game created before
\* has, the detected name, executable path and install path, source_id set
\* to the detected id, favorite false, no category, zero playtime and no
\* last_played, and it does so whether or not the same detected game was
\* converted before or is in the library, which it leaves as it is.
C26_IntoGame ==
    [][call' # call =>
        LET c == Unwrap(call')
            g == c.game
        IN  /\ \A k \in DOMAIN before' : before'[k].id # g.id
            /\ g.id \notin DOMAIN library.games
            /\ g.name = c.detected.name
            /\ g.executable_path = c.detected.executable_path
            /\ g.install_path = Some(c.detected.install_path)
            /\ g.source = c.source
            /\ g.source_id = Some(c.detected.source_id)
            /\ g.favorite = FALSE
            /\ g.categories = <<>>
            /\ g.playtime_minutes = 0
            /\ g.last_played = None
            /\ library' = library]_vars
C26_Witness ==
    /\ call # None
    /\ \E k \in DOMAIN before, id \in DOMAIN library.games :
           /\ before[k].source = Unwrap(call).game.source
           /\ before[k].source_id = Unwrap(call).game.source_id
           /\ library.games[id].source = Unwrap(call).game.source
           /\ library.games[id].source_id = Unwrap(call).game.source_id
           /\ library.games[id].name = Unwrap(call).game.name

(***************************************************************************)
(* Message::UpdateGame, with every combination of the fields a GameUpdate  *)
(* can carry, handled by an App with nothing in flight.                    *)
(***************************************************************************)
\* the games an App can hold under one id, with and without launch_args and
\* icon_path
UpdateGames(id) ==
    {[g EXCEPT !.launch_args = extras[1], !.icon_path = extras[2]] :
        g \in {Game_new(id, <<"P">>, <<"/", "a">>, "Manual", 0),
               [DetectedGame_into_game(Detected, "Steam", id, 0)
                   EXCEPT !.favorite = TRUE, !.categories = <<1>>,
                          !.last_played = Some(0), !.playtime_minutes = 1]},
        extras \in {<<None, None>>, <<Some(<<"-", "f">>), Some(<<"/", "i">>)>>}}
UpdateLibraries(n, c) ==
    {[games |-> games,
      categories |-> [id \in 1..c |->
                         IF id <= NumDefaultCategories
                         THEN default_categories(0)[id]
                         ELSE Category_new(id, "Horror")]] :
        games \in {f \in [1..n -> UNION {UpdateGames(id) : id \in 1..n}] :
                      \A id \in 1..n : f[id] \in UpdateGames(id)}}
GameUpdates ==
    [name : {None, Some(<<"Q">>)}, executable_path : {None, Some(<<"/", "q">>)},
     launch_args : {None, Some(<<"-", "w">>)}, icon_path : {None, Some(<<"/", "w">>)}]

InitUpdate ==
    /\ nextGame \in 0..MaxGames
    /\ nextCat \in NumDefaultCategories..(NumDefaultCategories + MaxNewCats)
    /\ library \in UpdateLibraries(nextGame, nextCat)
    /\ config = Config_default
    /\ current_view = "Library"
    /\ search_query = <<>>
    /\ selected_category = None
    /\ selected_game = None
    /\ sort_order = "NameAsc"
    /\ new_game_name = <<>>
    /\ new_game_path = <<>>
    /\ tasks = EmptyBag
    /\ inbox = <<>>
    /\ libFile = Missing
    /\ cfgFile = Missing
    /\ loaded = None
    /\ before = None
    /\ call = None

NextUpdate ==
    Quiescent /\ \E id \in 1..(MaxGames + 1), update \in GameUpdates : UpdateGame(id, update)
SpecUpdate == InitUpdate /\ [][NextUpdate]_vars

\* the fields of a Game that no GameUpdate carries
FixedGameFields ==
    {"id", "added_date", "source", "source_id", "categories", "favorite", "last_played",
     "playtime_minutes", "install_path", "banner_path"}

\* C28: UpdateGame(id, update) gives the game with that id the name,
\* executable_path, launch_args and icon_path the update carries and leaves
\* the fields it does not carry, every other field of the game, every other
\* game and the categories as they were; when no game has the id the library
\* is unchanged.
C28_UpdateGameFrame ==
    [][\A id \in 1..(MaxGames + 1), update \in GameUpdates :
          UpdateGame(id, update) =>
              /\ library'.categories = library.categories
              /\ DOMAIN library'.games = DOMAIN library.games
              /\ \A other \in DOMAIN library.games \ {id} :
                     library'.games[other] = library.games[other]
              /\ id \notin DOMAIN library.games => library' = library
              /\ id \in DOMAIN library.games =>
                     LET old == library.games[id]
                         new == library'.games[id]
                     IN  /\ \A field \in FixedGameFields : new[field] = old[field]
                         /\ new.name = IF update.name = None THEN old.name
                                       ELSE Unwrap(update.name)
                         /\ new.executable_path =
                                IF update.executable_path = None THEN old.executable_path
                                ELSE Unwrap(update.executable_path)
                         /\ new.launch_args = IF update.launch_args = None THEN old.launch_args
                                              ELSE update.launch_args
                         /\ new.icon_path = IF update.icon_path = None THEN old.icon_path
                                            ELSE update.icon_path]_vars
C28_Witness ==
    /\ tasks = SetToBag({save_library(library)})
    /\ \E id \in DOMAIN library.games :
           /\ library.games[id].name = <<"Q">>
           /\ library.games[id].executable_path = <<"/", "t">>
           /\ library.games[id].launch_args = Some(<<"-", "f">>)
           /\ library.games[id].icon_path = Some(<<"/", "w">>)
           /\ library.games[id].favorite
           /\ library.games[id].categories = <<1>>

(***************************************************************************)
(* Sequences of AssignCategory and UnassignCategory, each handled when the *)
(* save of the one before has completed, on games created by the program   *)
(* and on a game whose stored category list names a category twice.        *)
(***************************************************************************)
AssignCats == {1, 2, 3}
AssignGames(id) ==
    {[Game_new(id, <<"P">>, <<"/", "a">>, "Manual", 0) EXCEPT !.categories = cats] :
        cats \in {<<>>, <<1, 2, 1>>}}

InitAssign ==
    /\ nextGame \in 0..MaxGames
    /\ nextCat = NumDefaultCategories
    /\ library \in {[App_default_library EXCEPT !.games = games] :
                       games \in {f \in [1..nextGame -> UNION {AssignGames(id) : id \in 1..nextGame}] :
                                     \A id \in 1..nextGame : f[id] \in AssignGames(id)}}
    /\ config = Config_default
    /\ current_view = "Library"
    /\ search_query = <<>>
    /\ selected_category = None
    /\ selected_game = None
    /\ sort_order = "NameAsc"
    /\ new_game_name = <<>>
    /\ new_game_path = <<>>
    /\ tasks = EmptyBag
    /\ inbox = <<>>
    /\ libFile = Missing
    /\ cfgFile = Missing
    /\ loaded = None
    /\ before = None
    /\ call = None

NextAssign ==
    \/ Quiescent /\ \E game_id \in 1..(MaxGames + 1), category_id \in AssignCats :
                        AssignCategory(game_id, category_id)
    \/ Quiescent /\ \E game_id \in 1..(MaxGames + 1), category_id \in AssignCats :
                        UnassignCategory(game_id, category_id)
    \/ \E task \in BagToSet(tasks) : RunSave(task, "ok")
    \/ LibrarySaved
SpecAssign == InitAssign /\ [][NextAssign]_vars

Count(s, x) == Cardinality({i \in DOMAIN s : s[i] = x})
NoDuplicates(lib) ==
    \A id \in DOMAIN lib.games :
        \A c \in Range(lib.games[id].categories) : Count(lib.games[id].categories, c) = 1

\* C29: AssignCategory and UnassignCategory keep every game's category list
\* free of duplicates: add_category of an id the game has leaves the list as
\* it is and otherwise appends the id once, and remove_category takes out
\* every occurrence of the id and nothing else.
C29_NoDuplicateCategories ==
    [][\A game_id \in 1..(MaxGames + 1), category_id \in AssignCats :
          /\ (AssignCategory(game_id, category_id) \/ UnassignCategory(game_id, category_id))
                 => (NoDuplicates(library) => NoDuplicates(library'))
          /\ (AssignCategory(game_id, category_id) /\ game_id \in DOMAIN library.games) =>
                 LET old == library.games[game_id].categories
                     new == library'.games[game_id].categories
                 IN  /\ category_id \in Range(old) => new = old
                     /\ category_id \notin Range(old) => new = Append(old, category_id)
          /\ (UnassignCategory(game_id, category_id) /\ game_id \in DOMAIN library.games) =>
                 LET old == library.games[game_id].categories
                     new == library'.games[game_id].categories
                 IN  /\ category_id \notin Range(new)
                     /\ \A c \in AssignCats \ {category_id} : Count(new, c) = Count(old, c)
                     /\ Len(new) = Len(old) - Count(old, category_id)]_vars
C29_Witness ==
    /\ libFile # Missing
    /\ tasks = SetToBag({save_library(library)})
    /\ \E id \in DOMAIN library.games : library.games[id].categories = <<2, 1>>
    /\ \E id \in DOMAIN library.games :
           Library_load_from_file(libFile) = Ok([library EXCEPT !.games[id].categories = <<2>>])

====
